---- MODULE Spec2Model ----
(***************************************************************************)
(* A model of the DWARF reader of the eureka repository (package garf):    *)
(* unit enumeration (DwData.CompUnits), the lazily built DIE tree          *)
(* (DwUnit.DIETree, DwData.readDIETree, DwData.readDIETreeHelper,          *)
(* DwData.readAttr, DwData.readAttrRef) with its offset->DIE cache, the    *)
(* abbreviation-table decoder (DwData.AbbrevTable), the LEB128 reader and  *)
(* the location-list / range-list decoders.                                *)
(*                                                                         *)
(* Sections are sequences of bytes (0..255).  Offsets are 0-based as in    *)
(* the code; the byte at offset o of a section s is s[o + 1].              *)
(***************************************************************************)
EXTENDS Integers, Sequences, FiniteSets, TLC

\* The nil pointer.  DIE nodes are numbered 1, 2, ... in allocation order.
NIL == 0

\* A value of the code that does not fit the integers of the model checker
\* (2^28 and above).  No modelled abbreviation code, section offset or
\* section length is that large.
HUGE == 0 - 1

(***************************************************************************)
(* Bytes and little-endian words                                           *)
(***************************************************************************)

\* bytes.Reader.Len(): the number of unread bytes.
ReaderLen(data, pos) == IF pos >= Len(data) THEN 0 ELSE Len(data) - pos

\* The n bytes at offset pos (binary.Read of a fixed-width value), or an
\* error when fewer than n bytes remain.
ReadBytes(data, pos, n) ==
    IF pos + n > Len(data)
    THEN [ok |-> FALSE, bytes |-> <<>>, pos |-> Len(data)]
    ELSE [ok |-> TRUE, bytes |-> SubSeq(data, pos + 1, pos + n), pos |-> pos + n]

\* The digits from index i on are all zero.
RECURSIVE ZeroFrom(_, _)
ZeroFrom(digits, i) ==
    IF i > Len(digits) THEN TRUE
    ELSE digits[i] = 0 /\ ZeroFrom(digits, i + 1)

RECURSIVE DigitsValue(_, _, _)
DigitsValue(digits, base, i) ==
    IF i > Len(digits) THEN 0
    ELSE digits[i] + base * DigitsValue(digits, base, i + 1)

\* The value of a little-endian word (the binary.ByteOrder of the modelled
\* files is little endian), HUGE when it is 2^24 or more.
LEValue(bytes) ==
    IF ZeroFrom(bytes, 4) THEN DigitsValue(SubSeq(bytes, 1, IF Len(bytes) < 3 THEN Len(bytes) ELSE 3), 256, 1)
    ELSE HUGE

\* uint64 addition of a small number n to the 8 little-endian bytes a,
\* modulo 2^64.
RECURSIVE U64AddFrom(_, _, _)
U64AddFrom(a, carry, i) ==
    IF i > 8 THEN <<>>
    ELSE <<(a[i] + carry) % 256>> \o U64AddFrom(a, (a[i] + carry) \div 256, i + 1)

U64Add(a, n) == U64AddFrom(a, n, 1)

\* The 8 little-endian bytes of a uint64 holding a small number n.
U64(n) == U64Add(<<0, 0, 0, 0, 0, 0, 0, 0>>, n)

\* int64(x) < 0 for the uint64 x.
U64Negative(a) == a[8] >= 128

\* uint64(x) of a 4-byte word.
Widen32(bytes) == bytes \o <<0, 0, 0, 0>>

(***************************************************************************)
(* LEB128 (utils/leb128)                                                   *)
(***************************************************************************)

\* The 7-bit groups of the LEB128 number at pos, up to and including the
\* first byte whose high bit is clear.
RECURSIVE LebScan(_, _)
LebScan(data, pos) ==
    IF pos >= Len(data)
    THEN [ok |-> FALSE, groups |-> <<>>, pos |-> Len(data)]
    ELSE LET b == data[pos + 1] IN
         IF b < 128
         THEN [ok |-> TRUE, groups |-> <<b>>, pos |-> pos + 1]
         ELSE LET rest == LebScan(data, pos + 1) IN
              [ok |-> rest.ok, groups |-> <<b % 128>> \o rest.groups, pos |-> rest.pos]

\* res |= uint64(b&0x7f) << shift: a group whose shift is 64 or more adds
\* nothing, and only bit 0 of the group at shift 63 is kept.
GroupsValue(groups) ==
    LET kept == [i \in 1..(IF Len(groups) < 10 THEN Len(groups) ELSE 10) |->
                    IF i = 10 THEN groups[i] % 2 ELSE groups[i]]
    IN  IF ZeroFrom(kept, 5)
        THEN DigitsValue(SubSeq(kept, 1, IF Len(kept) < 4 THEN Len(kept) ELSE 4), 128, 1)
        ELSE HUGE

ReadUnsigned(data, pos) ==
    LET s == LebScan(data, pos) IN
    [ok |-> s.ok, val |-> IF s.ok THEN GroupsValue(s.groups) ELSE 0, pos |-> s.pos]

\* ReadUnsigned and ReadSigned at full width.  A uint64 is its 64 bits,
\* lowest first, while it is computed, and its 8 little-endian bytes when
\* it is returned.
RECURSIVE Pow2(_)
Pow2(k) == IF k = 0 THEN 1 ELSE 2 * Pow2(k - 1)

ZeroBits == [k \in 1..64 |-> 0]

\* A shift of a group whose count is taken modulo 64.
GroupShiftedModulo(b, shift) ==
    [k \in 1..64 |->
        IF k - 1 >= shift % 64 /\ k - 1 < (shift % 64) + 7
        THEN ((b % 128) \div Pow2(k - 1 - (shift % 64))) % 2
        ELSE 0]

\* uint64(b&0x7f) << shift: the bits shifted to position 64 and above are
\* lost, and a shift of 64 or more leaves nothing.
GroupShifted(b, shift) ==
    [k \in 1..64 |->
        IF k - 1 >= shift /\ k - 1 < shift + 7
        THEN ((b % 128) \div Pow2(k - 1 - shift)) % 2
        ELSE 0]

Or64(x, y) == [k \in 1..64 |-> IF x[k] = 1 \/ y[k] = 1 THEN 1 ELSE 0]

BitsToBytes(bits) ==
    [i \in 1..8 |-> DigitsValue(SubSeq(bits, 8 * i - 7, 8 * i), 2, 1)]

\* The loop of ReadUnsigned and of ReadSigned: res |= uint64(b&0x7f) <<
\* shift for the bytes up to the first one without the bit 0x80.  n is the
\* number of bytes read.
RECURSIVE ReadGroups(_, _, _, _)
ReadGroups(data, pos, res, n) ==
    IF pos >= Len(data)
    THEN [ok |-> FALSE, res |-> ZeroBits, pos |-> Len(data), n |-> n, lastByte |-> 0]
    ELSE LET b  == data[pos + 1]
             r2 == Or64(res, GroupShifted(b, 7 * n))
         IN  IF b < 128
             THEN [ok |-> TRUE, res |-> r2, pos |-> pos + 1, n |-> n + 1, lastByte |-> b]
             ELSE ReadGroups(data, pos + 1, r2, n + 1)

\* leb128.ReadUnsigned
ReadUnsigned64(data, pos) ==
    LET g == ReadGroups(data, pos, ZeroBits, 0) IN
    [ok |-> g.ok, res |-> BitsToBytes(g.res), pos |-> g.pos]

\* Never extending the sign.
NoSignExtension(res, shift, lastByte) == res

\* if shift < 64 && (lastByte&0x40 != 0) { res |= 0xFFFFFFFFFFFFFFFF << shift }
SignExtended(res, shift, lastByte) ==
    IF shift < 64 /\ (lastByte \div 64) % 2 = 1
    THEN Or64(res, [k \in 1..64 |-> IF k - 1 >= shift THEN 1 ELSE 0])
    ELSE res

\* leb128.ReadSigned; res holds the bits of the int64.
ReadSigned64(data, pos) ==
    LET g == ReadGroups(data, pos, ZeroBits, 0) IN
    [ok  |-> g.ok,
     res |-> IF g.ok THEN BitsToBytes(SignExtended(g.res, 7 * g.n, g.lastByte))
             ELSE BitsToBytes(ZeroBits),
     pos |-> g.pos]

(***************************************************************************)
(* Strings (utils.ReadUntil, utils.ReadCString, DebugStrTbl.ReadStr)       *)
(***************************************************************************)

ASCII_NULL == 0

\* The bytes from pos up to and including the first delim.
RECURSIVE ReadThrough(_, _, _, _)
ReadThrough(data, pos, delim, str) ==
    IF pos >= Len(data) THEN [ok |-> FALSE, str |-> <<>>, pos |-> Len(data)]
    ELSE LET c == data[pos + 1] IN
         IF c = delim THEN [ok |-> TRUE, str |-> Append(str, c), pos |-> pos + 1]
         ELSE ReadThrough(data, pos + 1, delim, Append(str, c))

\* utils.ReadUntil: the bytes from pos up to the first delim, which is
\* consumed and left out; an error and no bytes when the data ends first.
RECURSIVE ReadUntilFrom(_, _, _, _)
ReadUntilFrom(data, pos, delim, str) ==
    IF pos >= Len(data) THEN [ok |-> FALSE, str |-> <<>>, pos |-> Len(data)]
    ELSE LET c == data[pos + 1] IN
         IF c = delim THEN [ok |-> TRUE, str |-> str, pos |-> pos + 1]
         ELSE ReadUntilFrom(data, pos + 1, delim, Append(str, c))

ReadUntil(data, pos, delim) == ReadUntilFrom(data, pos, delim, <<>>)

\* utils.ReadCString; a string is the sequence of its bytes.
ReadCString(data, pos) == ReadUntil(data, pos, ASCII_NULL)

\* DebugStrTbl.ReadStr on a table whose data is data.
ReadStr(data, offset) ==
    IF offset = HUGE \/ offset >= Len(data) THEN [ok |-> FALSE, str |-> <<>>, pos |-> 0]
    ELSE ReadCString(data, offset)

(***************************************************************************)
(* DwData.AbbrevTable: the abbreviation table at an offset of              *)
(* .debug_abbrev, a function from abbreviation codes to entries.           *)
(***************************************************************************)

NullAbbrevEntry == 0
DW_CHILDREN_yes == 1

EmptyTable == [c \in {} |-> 0]

\* The (name, form) pairs of one entry, up to the (0, 0) pair.
RECURSIVE ReadAttrForms(_, _, _)
ReadAttrForms(data, pos, acc) ==
    LET attr == ReadUnsigned(data, pos) IN
    IF ~attr.ok THEN [ok |-> FALSE, forms |-> <<>>, pos |-> attr.pos]
    ELSE LET form == ReadUnsigned(data, attr.pos) IN
         IF ~form.ok THEN [ok |-> FALSE, forms |-> <<>>, pos |-> form.pos]
         ELSE IF form.val = 0 /\ attr.val = 0
              THEN [ok |-> TRUE, forms |-> acc, pos |-> form.pos]
              ELSE ReadAttrForms(data, form.pos,
                                 Append(acc, [Name |-> attr.val, Form |-> form.val]))

RECURSIVE ReadAbbrevEntries(_, _, _)
ReadAbbrevEntries(data, pos, table) ==
    LET abbrevCode == ReadUnsigned(data, pos) IN
    IF ~abbrevCode.ok THEN [ok |-> FALSE, table |-> EmptyTable]
    ELSE IF abbrevCode.val = NullAbbrevEntry THEN [ok |-> TRUE, table |-> table]
    ELSE LET tag == ReadUnsigned(data, abbrevCode.pos) IN
         IF ~tag.ok THEN [ok |-> FALSE, table |-> EmptyTable]
         ELSE LET hasChildren == ReadBytes(data, tag.pos, 1) IN
              IF ~hasChildren.ok THEN [ok |-> FALSE, table |-> EmptyTable]
              ELSE LET forms == ReadAttrForms(data, hasChildren.pos, <<>>) IN
                   IF ~forms.ok THEN [ok |-> FALSE, table |-> EmptyTable]
                   ELSE LET entry == [AbbrevCode  |-> abbrevCode.val,
                                      Tag         |-> tag.val,
                                      HasChildren |-> hasChildren.bytes[1] = DW_CHILDREN_yes,
                                      AttrForms   |-> forms.forms]
                        IN ReadAbbrevEntries(data, forms.pos,
                                             (abbrevCode.val :> entry) @@ table)

\* A seek to an offset at or past the end of the section succeeds and the
\* first read fails.
AbbrevTable(data, offset) ==
    IF offset = HUGE THEN [ok |-> FALSE, table |-> EmptyTable]
    ELSE ReadAbbrevEntries(data, offset, EmptyTable)

(***************************************************************************)
(* DwData.CompUnits: the unit headers of .debug_info                       *)
(***************************************************************************)

DwFormat32 == 0
DwFormat64 == 1
DW_UT_compile == 1
DW_UT_type == 2

MaxU32Bytes == <<255, 255, 255, 255>>

NilTable == [nil |-> TRUE, table |-> EmptyTable]

\* reader.Seek(int64(target), 0) from position pos: a negative offset is an
\* error, which CompUnits ignores, and the position stays; a position past
\* the end is kept by the reader, which then has no byte left.
SeekTo(data, pos, target) ==
    IF U64Negative(target) THEN pos
    ELSE IF LEValue(target) = HUGE THEN Len(data)
    ELSE LEValue(target)

\* One unit header at pos: the fields read, or the failed read.
ReadUnitHeader(data, pos) ==
    LET size32 == ReadBytes(data, pos, 4) IN
    IF ~size32.ok THEN [ok |-> FALSE]
    ELSE
    LET is64   == size32.bytes = MaxU32Bytes
        size64 == IF is64 THEN ReadBytes(data, size32.pos, 8)
                  ELSE [ok |-> TRUE, bytes |-> Widen32(size32.bytes), pos |-> size32.pos]
    IN
    IF ~size64.ok THEN [ok |-> FALSE]
    ELSE
    LET version == ReadBytes(data, size64.pos, 2) IN
    IF ~version.ok THEN [ok |-> FALSE]
    ELSE
    LET unitType == IF LEValue(version.bytes) >= 5
                    THEN ReadBytes(data, version.pos, 1)
                    ELSE [ok |-> TRUE, bytes |-> <<DW_UT_compile>>, pos |-> version.pos]
    IN
    IF ~unitType.ok THEN [ok |-> FALSE]
    ELSE
    LET debugAbbrevOffset == ReadBytes(data, unitType.pos, IF is64 THEN 8 ELSE 4) IN
    IF ~debugAbbrevOffset.ok THEN [ok |-> FALSE]
    ELSE
    LET addrSize == ReadBytes(data, debugAbbrevOffset.pos, 1) IN
    IF ~addrSize.ok THEN [ok |-> FALSE]
    ELSE [ok                |-> TRUE,
          format            |-> IF is64 THEN DwFormat64 ELSE DwFormat32,
          length            |-> size64.bytes,
          version           |-> LEValue(version.bytes),
          unitType          |-> unitType.bytes[1],
          debugAbbrevOffset |-> LEValue(debugAbbrevOffset.bytes),
          addrSize          |-> addrSize.bytes[1],
          pos               |-> addrSize.pos]

\* u.lnInfo == nil.  The line number information that a unit holds is the
\* one element of a sequence.
NoLnInfo == <<>>

\* A DwUnit whose size counts 4 bytes of initial length in both formats.
NewUnitLength4(h, headerOffset) ==
    [Type              |-> h.unitType,
     Format            |-> h.format,
     AddressSize       |-> h.addrSize,
     Version           |-> h.version,
     size              |-> U64Add(h.length, 4),
     debugAbbrevOffset |-> h.debugAbbrevOffset,
     headerOffset      |-> headerOffset,
     dataOffset        |-> h.pos,
     abbrevTable       |-> NilTable,
     dieTree           |-> NIL,
     lnInfo            |-> NoLnInfo]

\* The DwUnit made from a header read at headerOffset.
NewUnit(h, headerOffset) ==
    [Type              |-> h.unitType,
     Format            |-> h.format,
     AddressSize       |-> h.addrSize,
     Version           |-> h.version,
     size              |-> IF h.format = DwFormat64 THEN U64Add(h.length, 12)
                           ELSE U64Add(h.length, 4),
     debugAbbrevOffset |-> h.debugAbbrevOffset,
     headerOffset      |-> headerOffset,
     dataOffset        |-> h.pos,
     abbrevTable       |-> NilTable,
     dieTree           |-> NIL,
     lnInfo            |-> NoLnInfo]

\* The position after one iteration of the loop that made unit cu.
NextUnitPos(data, cu) ==
    SeekTo(data, cu.dataOffset, U64Add(cu.size, cu.headerOffset))

\* One turn of the loop of CompUnits with the reader at pos and the units
\* appended so far: the loop ends (done), with an error or without, or goes
\* on at a position with the units it has then.  A type unit appends
\* nothing and leaves the reader after the header.
CompUnitsTurn(data, pos, units) ==
    IF ReaderLen(data, pos) = 0
    THEN [done |-> TRUE, err |-> FALSE, pos |-> pos, units |-> units]
    ELSE LET h == ReadUnitHeader(data, pos) IN
         IF ~h.ok THEN [done |-> TRUE, err |-> TRUE, pos |-> pos, units |-> units]
         ELSE IF h.unitType = DW_UT_type
              THEN [done |-> FALSE, err |-> FALSE, pos |-> h.pos, units |-> units]
              ELSE LET cu == NewUnit(h, pos) IN
                   [done |-> FALSE, err |-> FALSE, pos |-> NextUnitPos(data, cu),
                    units |-> Append(units, cu)]

\* The loop of CompUnits from position pos on: the units appended when the
\* loop ends, and whether it ended with an error.
RECURSIVE CompUnitsLoop(_, _, _)
CompUnitsLoop(data, pos, units) ==
    IF ReaderLen(data, pos) = 0 THEN [err |-> FALSE, units |-> units]
    ELSE LET h == ReadUnitHeader(data, pos) IN
         IF ~h.ok THEN [err |-> TRUE, units |-> units]
         ELSE IF h.unitType = DW_UT_type
              THEN CompUnitsLoop(data, h.pos, units)
              ELSE LET cu == NewUnit(h, pos) IN
                   CompUnitsLoop(data, NextUnitPos(data, cu), Append(units, cu))

(***************************************************************************)
(* Attribute values (DwData.readAttr and the readers it dispatches to)     *)
(***************************************************************************)

DW_AT_sibling == 1
DW_AT_location == 2
DW_AT_name == 3
DW_AT_stmt_list == 16
DW_AT_ranges == 85
DW_AT_byte_size == 11
DW_AT_low_pc == 17
DW_AT_high_pc == 18
DW_AT_type == 73

DW_FORM_addr == 1
DW_FORM_string == 8
DW_FORM_strp == 14
DW_FORM_data2 == 5
DW_FORM_data4 == 6
DW_FORM_data8 == 7
DW_FORM_data1 == 11
DW_FORM_sdata == 13
DW_FORM_udata == 15
DW_FORM_ref_addr == 16
DW_FORM_ref1 == 17
DW_FORM_ref2 == 18
DW_FORM_ref4 == 19
DW_FORM_ref8 == 20
DW_FORM_ref_udata == 21
DW_FORM_sec_offset == 23
DW_FORM_exprloc == 24
DW_FORM_ref_sig8 == 32
DW_FORM_ref_sup == 28

IsAddress(f) == f = DW_FORM_addr
IsFixedWidthConst(f) == f \in {DW_FORM_data1, DW_FORM_data2, DW_FORM_data4, DW_FORM_data8}
IsConstant(f) == IsFixedWidthConst(f) \/ f = DW_FORM_sdata \/ f = DW_FORM_udata
IsExprLoc(f) == f = DW_FORM_exprloc
IsLinePtr(f) == f = DW_FORM_sec_offset
IsLocListPtr(f) == f = DW_FORM_sec_offset
IsCompUnitRef(f) ==
    f \in {DW_FORM_ref1, DW_FORM_ref2, DW_FORM_ref4, DW_FORM_ref8, DW_FORM_ref_udata}
IsRef(f) ==
    IsCompUnitRef(f) \/ f = DW_FORM_ref_addr \/ f = DW_FORM_ref_sup \/ f = DW_FORM_ref_sig8

\* A read that failed, and a read of the n bytes at pos.
ReadFailed == [ok |-> FALSE, raw |-> <<>>, val |-> 0, pos |-> 0]

ReadFixed(data, pos, n) ==
    LET r == ReadBytes(data, pos, n) IN
    IF r.ok THEN [ok |-> TRUE, raw |-> r.bytes, val |-> LEValue(r.bytes), pos |-> r.pos]
    ELSE ReadFailed

ReadULEB(data, pos) ==
    LET r == ReadUnsigned(data, pos) IN
    IF r.ok THEN [ok |-> TRUE, raw |-> SubSeq(data, pos + 1, r.pos), val |-> r.val, pos |-> r.pos]
    ELSE ReadFailed

\* A value of n bytes (binary.Read into an integer of n bytes) converted to
\* an integer of w bytes: uintW(i) adds zero bytes and intW(i) adds copies
\* of the sign.
FixedInt(data, pos, n, w, signed) ==
    LET r == ReadBytes(data, pos, n) IN
    IF ~r.ok THEN ReadFailed
    ELSE LET res == [i \in 1..w |-> IF i <= n THEN r.bytes[i]
                                    ELSE IF signed /\ r.bytes[n] >= 128 THEN 255
                                    ELSE 0]
         IN  [ok |-> TRUE, raw |-> r.bytes, val |-> LEValue(r.bytes), res |-> res,
              pos |-> r.pos]

\* A LEB128 number converted to an integer of w bytes: uintW(i) and intW(i)
\* of a 64-bit i keep the low w bytes.
LebInt(data, pos, w, signed) ==
    LET r == IF signed THEN ReadSigned64(data, pos) ELSE ReadUnsigned64(data, pos) IN
    IF ~r.ok THEN ReadFailed
    ELSE [ok |-> TRUE, raw |-> SubSeq(data, pos + 1, r.pos),
          val |-> LEValue(SubSeq(r.res, 1, w)), res |-> SubSeq(r.res, 1, w),
          pos |-> r.pos]

\* DwData.readAttrInt16
readAttrInt16(u, data, pos, f) ==
    CASE f = DW_FORM_data1 -> FixedInt(data, pos, 1, 2, TRUE)
      [] f = DW_FORM_data2 -> FixedInt(data, pos, 2, 2, TRUE)
      [] f = DW_FORM_sdata -> LebInt(data, pos, 2, TRUE)
      [] OTHER -> ReadFailed

\* DwData.readAttrInt32
readAttrInt32(u, data, pos, f) ==
    CASE f = DW_FORM_data1 -> FixedInt(data, pos, 1, 4, TRUE)
      [] f = DW_FORM_data2 -> FixedInt(data, pos, 2, 4, TRUE)
      [] f = DW_FORM_data4 -> FixedInt(data, pos, 4, 4, TRUE)
      [] f = DW_FORM_sdata -> LebInt(data, pos, 4, TRUE)
      [] OTHER -> ReadFailed

\* DwData.readAttrUint16
readAttrUint16(u, data, pos, f) ==
    CASE f = DW_FORM_data1 -> FixedInt(data, pos, 1, 2, FALSE)
      [] f = DW_FORM_data2 -> FixedInt(data, pos, 2, 2, FALSE)
      [] f = DW_FORM_udata -> LebInt(data, pos, 2, FALSE)
      [] OTHER -> ReadFailed

\* DwData.readAttrUint32: raw is the bytes read, res the uint32 returned
\* and val its value.
readAttrUint32(u, data, pos, f) ==
    CASE f = DW_FORM_data1 -> FixedInt(data, pos, 1, 4, FALSE)
      [] f = DW_FORM_data2 -> FixedInt(data, pos, 2, 4, FALSE)
      [] f = DW_FORM_data4 -> FixedInt(data, pos, 4, 4, FALSE)
      [] f = DW_FORM_udata -> LebInt(data, pos, 4, FALSE)
      [] OTHER -> ReadFailed

\* DwData.readAttrUint64.
readAttrUint64(u, data, pos, f) ==
    CASE f = DW_FORM_data1 -> ReadFixed(data, pos, 1)
      [] f = DW_FORM_data2 -> ReadFixed(data, pos, 2)
      [] f = DW_FORM_data4 -> ReadFixed(data, pos, 4)
      [] f = DW_FORM_data8 -> ReadFixed(data, pos, 8)
      [] f = DW_FORM_udata -> ReadULEB(data, pos)
      [] f = DW_FORM_addr  -> ReadFixed(data, pos, IF u.AddressSize = 4 THEN 4 ELSE 8)
      [] f = DW_FORM_sec_offset ->
             ReadFixed(data, pos, IF u.Format = DwFormat32 THEN 4 ELSE 8)
      [] OTHER -> ReadFailed

\* The offset read by DwData.readAttrRef before it resolves the reference.
readAttrRefOffset(data, pos, f) ==
    CASE f = DW_FORM_ref1 -> ReadFixed(data, pos, 1)
      [] f = DW_FORM_ref2 -> ReadFixed(data, pos, 2)
      [] f = DW_FORM_ref4 -> ReadFixed(data, pos, 4)
      [] f = DW_FORM_ref8 -> ReadFixed(data, pos, 8)
      [] f = DW_FORM_ref_udata -> ReadULEB(data, pos)
      [] OTHER -> ReadFailed

\* The branches of the switch of DwData.readAttr that call readAttrRef.
\* The modelled abbreviation tables declare sibling, type, byte_size, low_pc
\* and high_pc only; expression and block values are not modelled and read
\* as failures.
AttrIsRef(at, form) ==
    \/ at \in {DW_AT_sibling, DW_AT_type}
    \/ at = DW_AT_byte_size /\ ~IsConstant(form) /\ ~IsExprLoc(form) /\ IsRef(form)

\* The branches of DwData.readAttr that read a value without resolving a
\* reference.
readAttrData(u, data, pos, at, form) ==
    CASE at = DW_AT_byte_size /\ IsConstant(form) -> readAttrUint32(u, data, pos, form)
      [] at = DW_AT_low_pc /\ IsAddress(form)     -> readAttrUint64(u, data, pos, form)
      [] at = DW_AT_high_pc /\ (IsAddress(form) \/ IsConstant(form)) ->
             readAttrUint64(u, data, pos, form)
      [] OTHER -> ReadFailed

\* u.headerOffset + offset, and the position of a new reader after
\* Seek(int64(offset), 0): past the end no byte is left and the reader
\* reports the size of the section as its position.
RefTarget(u, offset) == IF offset = HUGE THEN HUGE ELSE u.headerOffset + offset

SeekPos(data, target) ==
    IF target = HUGE \/ target > Len(data) THEN Len(data) ELSE target

(***************************************************************************)
(* Location lists and range lists (DwData.readLocList, readRangeList)      *)
(***************************************************************************)

DW_OP_deref == 6
DW_OP_const1u == 8
DW_OP_const2u == 10
DW_OP_plus_uconst == 35
DW_OP_lit0 == 48
DW_OP_implicit_pointer == 160
DW_OP_GNU_implicit_pointer == 242

MaxU64Bytes == MaxU32Bytes \o MaxU32Bytes
ZeroU64 == U64(0)

\* The operands of operation op, read at pos after the opcode.  Modelled are
\* DW_OP_deref and DW_OP_lit0 (no operand), DW_OP_const1u and DW_OP_const2u
\* (one and two bytes), DW_OP_plus_uconst (an unsigned LEB128 number) and
\* DW_OP_implicit_pointer and DW_OP_GNU_implicit_pointer (an offset of 4 or
\* 8 bytes by the format of the unit u, kept as its value, and a LEB128
\* number, kept as the 8 bytes of the uint64); every other byte reads as an
\* unknown opcode, which is an error, and no modelled section holds another
\* operation.  implicitPointerOperands is the result for the two operands
\* of an implicit pointer, from the read of the offset and the read of the
\* number that follows it.
implicitPointerOperands(offset, constant) ==
    IF ~offset.ok THEN [ok |-> FALSE, operands |-> <<>>, pos |-> offset.pos]
    ELSE IF ~constant.ok THEN [ok |-> FALSE, operands |-> <<>>, pos |-> constant.pos]
    ELSE [ok |-> TRUE, operands |-> <<LEValue(offset.bytes), constant.res>>,
          pos |-> constant.pos]

readOperands(u, data, pos, op) ==
    IF op = DW_OP_deref \/ op = DW_OP_lit0
    THEN [ok |-> TRUE, operands |-> <<>>, pos |-> pos]
    ELSE IF op = DW_OP_const1u \/ op = DW_OP_const2u
    THEN LET c == ReadBytes(data, pos, IF op = DW_OP_const1u THEN 1 ELSE 2) IN
         IF c.ok THEN [ok |-> TRUE, operands |-> <<LEValue(c.bytes)>>, pos |-> c.pos]
         ELSE [ok |-> FALSE, operands |-> <<>>, pos |-> c.pos]
    ELSE IF op = DW_OP_plus_uconst
    THEN LET c == ReadUnsigned(data, pos) IN
         [ok |-> c.ok, operands |-> IF c.ok THEN <<c.val>> ELSE <<>>, pos |-> c.pos]
    ELSE IF op = DW_OP_implicit_pointer \/ op = DW_OP_GNU_implicit_pointer
    THEN implicitPointerOperands(
             ReadBytes(data, pos, IF u.Format = DwFormat32 THEN 4 ELSE 8),
             ReadUnsigned64(data, pos + (IF u.Format = DwFormat32 THEN 4 ELSE 8)))
    ELSE [ok |-> FALSE, operands |-> <<>>, pos |-> pos]

\* DwData.readDwExpr: operations are read while fewer than l bytes have
\* been consumed since the call (rem - r.Len() < l).
RECURSIVE readDwExprFrom(_, _, _, _, _, _)
readDwExprFrom(u, data, start, pos, l, expr) ==
    IF l # HUGE /\ pos - start >= l THEN [ok |-> TRUE, expr |-> expr, pos |-> pos]
    ELSE LET b == ReadBytes(data, pos, 1) IN
         IF ~b.ok THEN [ok |-> FALSE, expr |-> <<>>, pos |-> b.pos]
         ELSE LET operation == readOperands(u, data, b.pos, b.bytes[1]) IN
              IF ~operation.ok THEN [ok |-> FALSE, expr |-> <<>>, pos |-> operation.pos]
              ELSE readDwExprFrom(u, data, start, operation.pos, l,
                                  Append(expr, [Op       |-> b.bytes[1],
                                                Operands |-> operation.operands]))

readDwExpr(u, data, pos, l) == readDwExprFrom(u, data, pos, pos, l, <<>>)

\* DwData.readSizeAndDwExpr
readSizeAndDwExpr(u, data, pos) ==
    LET l == ReadUnsigned(data, pos) IN
    IF ~l.ok THEN [ok |-> FALSE, expr |-> <<>>, pos |-> l.pos]
    ELSE readDwExpr(u, data, l.pos, l.val)

\* The pair of words at pos as begin and end.  With 4-byte addresses a word
\* of 0xffffffff becomes the largest uint64 and any other end becomes
\* uint64(begin32).
ReadPair(data, pos, size) ==
    IF size = 4
    THEN LET begin32 == ReadBytes(data, pos, 4) IN
         IF ~begin32.ok THEN [ok |-> FALSE]
         ELSE LET end32 == ReadBytes(data, begin32.pos, 4) IN
              IF ~end32.ok THEN [ok |-> FALSE]
              ELSE [ok    |-> TRUE,
                    begin |-> IF begin32.bytes = MaxU32Bytes THEN MaxU64Bytes
                              ELSE Widen32(begin32.bytes),
                    end   |-> IF end32.bytes = MaxU32Bytes THEN MaxU64Bytes
                              ELSE Widen32(begin32.bytes),
                    pos   |-> end32.pos]
    ELSE LET begin == ReadBytes(data, pos, 8) IN
         IF ~begin.ok THEN [ok |-> FALSE]
         ELSE LET end == ReadBytes(data, begin.pos, 8) IN
              IF ~end.ok THEN [ok |-> FALSE]
              ELSE [ok |-> TRUE, begin |-> begin.bytes, end |-> end.bytes, pos |-> end.pos]

NoList == [err |-> TRUE, list |-> <<>>]

\* The loop of DwData.readLocList from position pos on.
RECURSIVE readLocListFrom(_, _, _, _, _)
readLocListFrom(u, data, pos, size, locList) ==
    LET p == ReadPair(data, pos, size) IN
    IF ~p.ok THEN NoList
    ELSE IF p.begin = ZeroU64 /\ p.end = ZeroU64
    THEN [err |-> FALSE, list |-> Append(locList, [kind |-> "EndOfList"])]
    ELSE IF p.begin = MaxU64Bytes
    THEN readLocListFrom(u, data, p.pos, size,
                         Append(locList, [kind |-> "BaseAddrSelection", addr |-> p.end]))
    ELSE IF p.begin = ZeroU64 /\ p.end = MaxU64Bytes
    THEN LET e == readSizeAndDwExpr(u, data, p.pos) IN
         IF ~e.ok THEN NoList
         ELSE readLocListFrom(u, data, e.pos, size,
                              Append(locList, [kind |-> "Default", expr |-> e.expr]))
    ELSE LET sz == ReadBytes(data, p.pos, 2) IN
         IF ~sz.ok THEN NoList
         ELSE LET e == readDwExpr(u, data, sz.pos, LEValue(sz.bytes)) IN
              IF ~e.ok THEN NoList
              ELSE readLocListFrom(u, data, e.pos, size,
                                   Append(locList, [kind |-> "Normal", begin |-> p.begin,
                                                    end |-> p.end, expr |-> e.expr]))

readLocList(u, data, offset, size) ==
    readLocListFrom(u, data, SeekPos(data, offset), size, <<>>)

\* The loop of DwData.readRangeList from position pos on.
RECURSIVE readRangeListFrom(_, _, _, _)
readRangeListFrom(data, pos, size, rangeList) ==
    LET p == ReadPair(data, pos, size) IN
    IF ~p.ok THEN NoList
    ELSE IF p.begin = ZeroU64 /\ p.end = ZeroU64
    THEN [err |-> FALSE, list |-> Append(rangeList, [kind |-> "EndOfList"])]
    ELSE IF p.begin = MaxU64Bytes
    THEN readRangeListFrom(data, p.pos, size,
                           Append(rangeList, [kind |-> "BaseAddrSelection", addr |-> p.end]))
    ELSE readRangeListFrom(data, p.pos, size,
                           Append(rangeList, [kind |-> "Normal", begin |-> p.begin,
                                              end |-> p.end]))

readRangeList(data, offset, size) ==
    readRangeListFrom(data, SeekPos(data, offset), size, <<>>)

(***************************************************************************)
(* The container (DwData), its units and its DIE cache                     *)
(***************************************************************************)

VARIABLES
    addressSize,   \* d.elf.AddressSize(): 4 or 8
    debugLoc,      \* the bytes of .debug_loc
    debugRanges,   \* the bytes of .debug_ranges
    debugLine,     \* the bytes of .debug_line
    debugAbbrev,   \* the bytes of .debug_abbrev
    debugStr,      \* the bytes of .debug_str
    sectMap,       \* d.elf.SectMap(): the names of the sections of the file
    debugStrTblNil,\* d.debugStrTbl == nil
    now,           \* the time, in ticks of the clock that stamps files
    file,          \* the ELF file on disk: its modification time and its bytes
    section,       \* a Section of the container: modTime, data (nil or bytes)
    info,          \* the bytes of .debug_info
    compUnits,     \* d.compUnits: the DwUnits, with their abbrevTable and dieTree
    compUnitsNil,  \* d.compUnits == nil
    dieMap,        \* d.dieMap: offset -> DIE (a node number)
    heap,          \* the DIE nodes allocated so far, by node number
    stack,         \* the active calls of readDIETreeHelper, innermost last
    readers,       \* the positions of the bytes.Readers of the active calls
    ret,           \* what the last call of CompUnits or DIETree returned
    calls,         \* the number of DIETree calls that started a decode
    failed         \* some DIETree call has returned an error

\* The sections besides .debug_info as they were loaded.
sections == <<addressSize, debugLoc, debugRanges, debugLine, debugAbbrev, debugStr, sectMap>>

\* What the decoding of .debug_info neither reads nor writes.
elf == <<sections, now, file, section>>

vars == <<elf, debugStrTblNil, info, compUnits, compUnitsNil, dieMap, heap, stack, readers, ret, calls,
          failed>>

\* The number of DIETree calls that decode (calls answered from u.dieTree
\* are not counted).
MaxCalls == 2

\* DIETree is called on the first MaxUnits units of a section.
MaxUnits == 2

\* The longest Children list the model records; a child appended to a list
\* of that length is dropped.  No terminating decode of a modelled section
\* gets near it.
MaxChildren == 6

NoAttributes == [a \in {} |-> 0]

\* new(DIE) with the fields readDIETreeHelper sets before it registers the
\* DIE; endOffset is 0 and Attributes nil until they are assigned.
NewDIE(tag, parent, u, offset) ==
    [Tag         |-> tag,
     Attributes  |-> NoAttributes,
     Parent      |-> parent,
     Children    |-> <<>>,
     Unit        |-> u,
     startOffset |-> offset,
     endOffset   |-> 0]

\* A call of readDIETreeHelper(u, r, en, parent): kind tells who called
\* ("root": DIETree, "ref": readAttrRef, both through readDIETree with a
\* reader of their own; "child": the loop over the children, with the
\* reader of the parent).
NewFrame(u, rd, parent, kind) ==
    [u          |-> u,
     rd         |-> rd,
     parent     |-> parent,
     kind       |-> kind,
     pc         |-> "enter",
     offset     |-> 0,
     die        |-> NIL,
     code       |-> 0,
     i          |-> 1,
     attributes |-> NoAttributes,
     target     |-> 0,
     res        |-> NIL,
     err        |-> FALSE]

Top == stack[Len(stack)]
Unit(k) == compUnits[k]
Entry(f) == Unit(f.u).abbrevTable.table[f.code]

SetTop(f) == [stack EXCEPT ![Len(stack)] = f]
Returning(f, res, err) == [f EXCEPT !.pc = "ret", !.res = res, !.err = err]

\* A cache from which nothing is removed.
KeepEntry(map, offset) == map

\* delete(d.dieMap, offset)
Delete(map, offset) == [o \in DOMAIN map \ {offset} |-> map[o]]

\* die.Children = append(die.Children, childDie)
AppendChild(children, child) ==
    IF Len(children) < MaxChildren THEN Append(children, child) ELSE children

(***************************************************************************)
(* The modelled files                                                      *)
(***************************************************************************)

\* .debug_abbrev: three tables.  All declare
\*   1: compile_unit, children, no attribute
\*   2: variable, no children, DW_AT_type ref1
\*   3: structure_type, children, DW_AT_sibling ref1
\*   4: base_type, no children, DW_AT_byte_size data1
\* The second also declares 18: base_type, no children, no attribute, and
\* the third 18: subprogram, children, DW_AT_low_pc addr, DW_AT_high_pc data2.
PlainAbbrevs ==
    <<1, 17, 1, 0, 0>> \o <<2, 52, 0, 73, 17, 0, 0>> \o
    <<3, 19, 1, 1, 17, 0, 0>> \o <<4, 36, 0, 11, 11, 0, 0>>

\* The fourth table declares the attributes whose values are in other
\* sections:
\*   1: compile_unit, children, DW_AT_stmt_list sec_offset
\*   2: variable, no children, DW_AT_name strp
\*   3: variable, no children, DW_AT_location sec_offset
\*   4: subprogram, no children, DW_AT_ranges sec_offset
\*   5: variable, no children, DW_AT_name string
\*   6: compile_unit, children, no attribute
\*   7: variable, no children, DW_AT_location exprloc
\*   8: variable, no children, DW_AT_type ref1
SectionAbbrevs ==
    <<1, 17, 1, DW_AT_stmt_list, DW_FORM_sec_offset, 0, 0>> \o
    <<2, 52, 0, DW_AT_name, DW_FORM_strp, 0, 0>> \o
    <<3, 52, 0, DW_AT_location, DW_FORM_sec_offset, 0, 0>> \o
    <<4, 46, 0, DW_AT_ranges, DW_FORM_sec_offset, 0, 0>> \o
    <<5, 52, 0, DW_AT_name, DW_FORM_string, 0, 0>> \o
    <<6, 17, 1, 0, 0>> \o
    <<7, 52, 0, DW_AT_location, DW_FORM_exprloc, 0, 0>> \o
    <<8, 52, 0, DW_AT_type, DW_FORM_ref1, 0, 0>>

\* The fifth table declares a reference to an offset in .debug_info:
\*   1: compile_unit, children, no attribute
\*   2: variable, no children, DW_AT_type ref_addr
\*   3: variable, no children, DW_AT_name string
RefAddrAbbrevs ==
    <<1, 17, 1, 0, 0>> \o
    <<2, 52, 0, DW_AT_type, DW_FORM_ref_addr, 0, 0>> \o
    <<3, 52, 0, DW_AT_name, DW_FORM_string, 0, 0>>

DebugAbbrev ==
    PlainAbbrevs \o <<0>> \o
    PlainAbbrevs \o <<18, 36, 0, 0, 0>> \o <<0>> \o
    PlainAbbrevs \o <<18, 46, 1, 17, 1, 18, 5, 0, 0>> \o <<0>> \o
    SectionAbbrevs \o <<0>> \o
    RefAddrAbbrevs \o <<0>>

RefAddrAbbrevOffset == Len(DebugAbbrev) - Len(RefAddrAbbrevs) - 1

SectionAbbrevOffset == RefAddrAbbrevOffset - Len(SectionAbbrevs) - 1

\* d.AbbrevTable(offset) on the modelled .debug_abbrev, tabulated for the
\* offsets inside the section.
AbbrevTables == [o \in 0..Len(DebugAbbrev) |-> AbbrevTable(DebugAbbrev, o)]

DebugAbbrevTable(offset) ==
    IF offset \in DOMAIN AbbrevTables THEN AbbrevTables[offset]
    ELSE AbbrevTable(DebugAbbrev, offset)

AbbrevOffsets == {0, Len(PlainAbbrevs) + 1, 2 * Len(PlainAbbrevs) + 7}

\* A version 4 unit in the 32-bit format with 8-byte addresses: the header
\* (unit_length, version, debug_abbrev_offset, address_size) and the DIEs.
UnitBytes(abbrevOffset, body) ==
    <<Len(body) + 7, 0, 0, 0, 4, 0, abbrevOffset, 0, 0, 0, 8>> \o body

\* The same unit in the 64-bit format: 0xffffffff, an 8-byte unit_length and
\* an 8-byte debug_abbrev_offset.
Unit64Bytes(abbrevOffset, body) ==
    MaxU32Bytes \o U64(Len(body) + 11) \o <<4, 0>> \o U64(abbrevOffset) \o <<8>> \o body

\* A version 5 compile unit in the 32-bit format: unit_type and address_size
\* come before debug_abbrev_offset.
Unit5Bytes(body) ==
    <<Len(body) + 8, 0, 0, 0, 5, 0, DW_UT_compile, 8, 0, 0, 0, 0>> \o body

\* root { variable -> a, struct (sibling -> b) { variable -> c }, variable -> z }
NestedBody(a, b, c, z) == <<1, 2, a, 3, b, 2, c, 0, 2, z, 0>>
NestedStarts == {11, 12, 14, 16, 19}

\* root { variable -> a, base_type }
FlatBody(a) == <<1, 2, a, 4, 4, 0>>
\* the same with an abbreviation code that no table declares
BadCodeBody(a) == <<1, 2, a, 9, 0>>
\* root { variable -> a }
SmallBody(a) == <<1, 2, a, 0>>

\* root { }
EmptyBody == <<1, 0>>

\* Sections of one to three compile units of both formats.
ChainUnits ==
    {UnitBytes(0, EmptyBody), Unit64Bytes(0, EmptyBody), Unit5Bytes(EmptyBody),
     UnitBytes(0, SmallBody(12)), Unit64Bytes(0, SmallBody(24))}

Chains ==
    ChainUnits \cup {x \o y : x \in ChainUnits, y \in ChainUnits}
    \cup {x \o y \o z : x \in ChainUnits, y \in ChainUnits, z \in ChainUnits}

\* Lists: up to MaxEntries pairs of address words, none of them (0, 0),
\* and the (0, 0) pair that ends the list.  A word is 0, 1 or the largest
\* address (written HUGE).  In .debug_loc a pair that is neither a base
\* address selection nor the end is followed by its expression, one
\* DW_OP_deref: after a 2-byte size, or for the default pair (0, largest)
\* after a LEB128 size.
MaxEntries == 2

ListWords == {0, 1, HUGE}
ListPairs == (ListWords \X ListWords) \ {<<0, 0>>}
ListShapes == UNION {[1..n -> ListPairs] : n \in 0..MaxEntries}

AddrWord(v, size) == [i \in 1..size |-> IF v = HUGE THEN 255 ELSE IF i = 1 THEN v ELSE 0]

LocPayload(p) ==
    IF p[1] = HUGE THEN <<>>
    ELSE IF p[1] = 0 /\ p[2] = HUGE THEN <<1, DW_OP_deref>>
    ELSE <<1, 0, DW_OP_deref>>

RECURSIVE EncodeList(_, _, _, _)
EncodeList(shape, i, size, isLoc) ==
    IF i > Len(shape) THEN AddrWord(0, size) \o AddrWord(0, size)
    ELSE AddrWord(shape[i][1], size) \o AddrWord(shape[i][2], size)
         \o (IF isLoc THEN LocPayload(shape[i]) ELSE <<>>)
         \o EncodeList(shape, i + 1, size, isLoc)

\* Sections in which a unit of the fifth abbreviation table holds
\* root { variable with DW_AT_type ref_addr, variable with DW_AT_name }:
\* the reference is the offset of the second variable in the section, in a
\* section that starts with that unit and in one where it is the second unit.
RefAddrUnits ==
    {UnitBytes(RefAddrAbbrevOffset, <<1, 2, 17, 0, 0, 0, 3, 97, 0, 0>>),
     UnitBytes(0, EmptyBody)
        \o UnitBytes(RefAddrAbbrevOffset, <<1, 2, 30, 0, 0, 0, 3, 97, 0, 0>>)}

Inputs ==
    {UnitBytes(t, NestedBody(a, b, c, z)) :
        t \in AbbrevOffsets, a \in NestedStarts, b \in NestedStarts,
        c \in NestedStarts, z \in NestedStarts}
    \cup {SubSeq(UnitBytes(0, FlatBody(a)), 1, n) : a \in 0..17, n \in 11..17}
    \cup {UnitBytes(0, BadCodeBody(a)) : a \in {11, 12, 14}}
    \cup {UnitBytes(200, SmallBody(a)) : a \in {11, 12}}
    \cup {UnitBytes(0, SmallBody(a)) \o UnitBytes(0, SmallBody(b)) :
            a \in {11, 12, 14, 26, 27, 30}, b \in {11, 12, 14, 15}}
    \cup Chains
    \cup RefAddrUnits

(***************************************************************************)
(* The operations                                                          *)
(***************************************************************************)

\* DwData.readLocList and DwData.readRangeList of a list at offset: an
\* error when the file has no such section.
readLocListMissing(u, offset) == NoList

readLocListAt(u, offset) ==
    IF ".debug_loc" \notin sectMap THEN NoList
    ELSE readLocList(u, debugLoc, offset, addressSize)

readRangeListAt(offset) ==
    IF ".debug_ranges" \notin sectMap THEN NoList
    ELSE readRangeList(debugRanges, offset, addressSize)

\* DwData.DebugStr: the memoised table, or an error without .debug_str,
\* or a new table over the bytes of the section.
DebugStr == [ok  |-> ~debugStrTblNil \/ ".debug_str" \in sectMap,
             nil |-> debugStrTblNil /\ ".debug_str" \notin sectMap]

\* The values of readAttr: strTbl tells that DebugStr returned a table.
AttrFailed(strTbl) == [ok |-> FALSE, raw |-> <<>>, val |-> 0, pos |-> 0, strTbl |-> strTbl]
AttrRead(raw, pos, strTbl) == [ok |-> TRUE, raw |-> raw, val |-> 0, pos |-> pos, strTbl |-> strTbl]

\* DwData.readAttrStr
readAttrStr(u, data, pos, form) ==
    IF form = DW_FORM_string
    THEN LET str == ReadCString(data, pos) IN
         IF str.ok THEN AttrRead(str.str, str.pos, FALSE) ELSE AttrFailed(FALSE)
    ELSE IF form = DW_FORM_strp
    THEN LET offset == ReadFixed(data, pos, IF u.Format = DwFormat32 THEN 4 ELSE 8) IN
         IF ~offset.ok THEN AttrFailed(FALSE)
         ELSE IF ~DebugStr.ok THEN AttrFailed(FALSE)
         ELSE LET str == ReadStr(debugStr, offset.val) IN
              IF str.ok THEN AttrRead(str.str, offset.pos, TRUE) ELSE AttrFailed(TRUE)
    ELSE AttrFailed(FALSE)

\* DwData.readAttrLocList and DwData.readAttrRangeList
readAttrLocList(u, data, pos, form) ==
    LET offset == readAttrUint64(u, data, pos, form) IN
    IF ~offset.ok THEN AttrFailed(FALSE)
    ELSE IF readLocListAt(u, offset.val).err THEN AttrFailed(FALSE)
    ELSE AttrRead(offset.raw, offset.pos, FALSE)

readAttrRangeList(u, data, pos, form) ==
    LET offset == readAttrUint64(u, data, pos, form) IN
    IF ~offset.ok THEN AttrFailed(FALSE)
    ELSE IF readRangeListAt(offset.val).err THEN AttrFailed(FALSE)
    ELSE AttrRead(offset.raw, offset.pos, FALSE)

\* The branches of the switch of DwData.readAttr that do not call
\* readAttrRef.  raw is the bytes read from the DIE.
readAttr(u, data, pos, at, form) ==
    CASE at = DW_AT_location ->
             IF IsLocListPtr(form) THEN readAttrLocList(u, data, pos, form)
             ELSE IF IsExprLoc(form)
             THEN LET e == readSizeAndDwExpr(u, data, pos) IN
                  IF e.ok THEN AttrRead(SubSeq(data, pos + 1, e.pos), e.pos, FALSE)
                  ELSE AttrFailed(FALSE)
             ELSE AttrFailed(FALSE)
      [] at = DW_AT_name -> readAttrStr(u, data, pos, form)
      [] at = DW_AT_stmt_list ->
             IF ~IsLinePtr(form) THEN AttrFailed(FALSE)
             ELSE LET v == readAttrUint64(u, data, pos, form) IN
                  IF v.ok THEN AttrRead(v.raw, v.pos, FALSE) ELSE AttrFailed(FALSE)
      [] at = DW_AT_ranges -> readAttrRangeList(u, data, pos, form)
      [] OTHER ->
             LET v == readAttrData(u, data, pos, at, form) IN
             IF v.ok THEN AttrRead(v.raw, v.pos, FALSE) ELSE AttrFailed(FALSE)

\* The sections of a file with debugging information.
OptionalSections == {".debug_str", ".debug_line", ".debug_loc", ".debug_ranges"}
AllSections == {".debug_info", ".debug_abbrev"} \cup OptionalSections

\* A file with every section and an empty .debug_str that is not written
\* after it was loaded, and a section of it that was not read yet.
FileAsLoaded ==
    /\ debugStr = <<>>
    /\ sectMap = AllSections
    /\ debugStrTblNil = TRUE
    /\ now = 0
    /\ file = [modTime |-> 0, data |-> <<>>]
    /\ section = [modTime |-> 0, dataNil |-> TRUE, data |-> <<>>]

NoReturn == [op |-> "none", u |-> 0, die |-> NIL, err |-> FALSE, units |-> <<>>]

Init ==
    /\ addressSize = 8
    /\ debugLoc = <<>>
    /\ debugLine = <<>>
    /\ debugRanges = <<>>
    /\ debugAbbrev = DebugAbbrev
    /\ FileAsLoaded
    /\ info \in Inputs
    /\ compUnits = <<>>
    /\ compUnitsNil = TRUE
    /\ dieMap = [o \in {} |-> NIL]
    /\ heap = <<>>
    /\ stack = <<>>
    /\ readers = <<>>
    /\ ret = NoReturn
    /\ calls = 0
    /\ failed = FALSE

Idle == stack = <<>>

\* DwData.CompUnits.  A caller holds the units once a call returned them.
CompUnitsCall ==
    /\ Idle
    /\ IF ~compUnitsNil
       THEN /\ ret' = [op |-> "CompUnits", u |-> 0, die |-> NIL, err |-> FALSE,
                       units |-> [k \in 1..Len(compUnits) |-> k]]
            /\ UNCHANGED <<compUnits, compUnitsNil>>
       ELSE LET r == CompUnitsLoop(info, 0, <<>>) IN
            /\ compUnits' = r.units
            /\ compUnitsNil' = FALSE
            /\ ret' = [op |-> "CompUnits", u |-> 0, die |-> NIL, err |-> r.err,
                       units |-> IF r.err THEN <<>> ELSE [k \in 1..Len(r.units) |-> k]]
    /\ UNCHANGED <<elf, debugStrTblNil, info, dieMap, heap, stack, readers, calls, failed>>

\* A DIETree that decodes the unit again whether or not u.dieTree is set.
DIETreeDecodesAgain(k) ==
    /\ Idle
    /\ k \in 1..Len(compUnits)
    /\ calls < MaxCalls
    /\ calls' = calls + 1
    /\ readers' = <<SeekPos(info, Unit(k).dataOffset)>>
    /\ stack' = <<NewFrame(k, 1, NIL, "root")>>
    /\ ret' = [op |-> "DIETree", u |-> k, die |-> NIL, err |-> FALSE, units |-> <<>>]
    /\ UNCHANGED <<elf, debugStrTblNil, info, compUnits, compUnitsNil, dieMap, heap, failed>>

\* DwUnit.DIETree on unit k: the memoised tree, or readDIETree(u, u.dataOffset),
\* which makes a reader, seeks and calls readDIETreeHelper with a nil parent.
DIETreeCall(k) ==
    /\ Idle
    /\ k \in 1..Len(compUnits)
    /\ IF Unit(k).dieTree # NIL
       THEN /\ ret' = [op |-> "DIETree", u |-> k, die |-> Unit(k).dieTree,
                       err |-> FALSE, units |-> <<>>]
            /\ UNCHANGED <<stack, readers, calls, failed>>
       ELSE /\ calls < MaxCalls
            /\ calls' = calls + 1
            /\ readers' = <<SeekPos(info, Unit(k).dataOffset)>>
            /\ stack' = <<NewFrame(k, 1, NIL, "root")>>
            /\ ret' = [op |-> "DIETree", u |-> k, die |-> NIL, err |-> FALSE, units |-> <<>>]
    /\ UNCHANGED <<elf, debugStrTblNil, info, compUnits, compUnitsNil, dieMap, heap, failed>>

\* readDIETreeHelper from its entry to the registration of the new DIE:
\* the cache lookup, the abbreviation table, the abbreviation code.
HelperEnter ==
    /\ ~Idle /\ Top.pc = "enter"
    /\ LET f      == Top
           u      == Unit(f.u)
           offset == readers[f.rd]
           g      == [f EXCEPT !.offset = offset]
       IN
       IF offset \in DOMAIN dieMap
       THEN LET die == dieMap[offset] IN
            /\ heap' = [heap EXCEPT ![die].Parent = f.parent]
            /\ readers' = [readers EXCEPT ![f.rd] = SeekPos(info, heap[die].endOffset)]
            /\ stack' = SetTop(Returning(g, die, FALSE))
            /\ UNCHANGED <<dieMap, compUnits>>
       ELSE
       LET tbl == IF u.abbrevTable.nil
                  THEN DebugAbbrevTable(u.debugAbbrevOffset)
                  ELSE [ok |-> TRUE, table |-> u.abbrevTable.table]
       IN
       IF ~tbl.ok
       THEN /\ stack' = SetTop(Returning(g, NIL, TRUE))
            /\ UNCHANGED <<dieMap, heap, readers, compUnits>>
       ELSE
       LET abbrevCode == ReadUnsigned(info, offset) IN
       /\ compUnits' = [compUnits EXCEPT
                           ![f.u].abbrevTable = [nil |-> FALSE, table |-> tbl.table]]
       /\ readers' = [readers EXCEPT ![f.rd] = abbrevCode.pos]
       /\ IF ~abbrevCode.ok
          THEN /\ stack' = SetTop(Returning(g, NIL, TRUE))
               /\ UNCHANGED <<dieMap, heap>>
          ELSE IF abbrevCode.val = 0
          THEN /\ stack' = SetTop(Returning(g, NIL, FALSE))
               /\ UNCHANGED <<dieMap, heap>>
          ELSE IF abbrevCode.val \notin DOMAIN tbl.table
          THEN /\ stack' = SetTop(Returning(g, NIL, TRUE))
               /\ UNCHANGED <<dieMap, heap>>
          ELSE LET die == Len(heap) + 1 IN
               /\ heap' = Append(heap, NewDIE(tbl.table[abbrevCode.val].Tag,
                                              f.parent, f.u, offset))
               /\ dieMap' = (offset :> die) @@ dieMap
               /\ stack' = SetTop([g EXCEPT !.pc = "attr", !.die = die,
                                            !.code = abbrevCode.val])
    /\ UNCHANGED <<elf, debugStrTblNil, info, compUnitsNil, ret, calls, failed>>

\* One turn of the loop over abbrevEntry.AttrForms: readAttr, and on an
\* error the removal of the DIE from the cache.  A reference reads its
\* offset and calls readDIETree(u, u.headerOffset+offset).
ReadAttr ==
    /\ ~Idle /\ Top.pc = "attr" /\ Top.i <= Len(Entry(Top).AttrForms)
    /\ LET f   == Top
           u   == Unit(f.u)
           af  == Entry(f).AttrForms[f.i]
           pos == readers[f.rd]
       IN
       IF AttrIsRef(af.Name, af.Form)
       THEN LET o == readAttrRefOffset(info, pos, af.Form) IN
            IF ~o.ok
            THEN /\ dieMap' = Delete(dieMap, f.offset)
                 /\ stack' = SetTop(Returning(f, NIL, TRUE))
                 /\ UNCHANGED <<readers, debugStrTblNil>>
            ELSE /\ readers' = Append([readers EXCEPT ![f.rd] = o.pos],
                                      SeekPos(info, RefTarget(u, o.val)))
                 /\ stack' = Append(SetTop([f EXCEPT !.target = RefTarget(u, o.val)]),
                                    NewFrame(f.u, Len(readers) + 1, NIL, "ref"))
                 /\ UNCHANGED <<dieMap, debugStrTblNil>>
       ELSE LET v == readAttr(u, info, pos, af.Name, af.Form) IN
            /\ debugStrTblNil' = (debugStrTblNil /\ ~v.strTbl)
            /\ IF ~v.ok
               THEN /\ dieMap' = Delete(dieMap, f.offset)
                    /\ stack' = SetTop(Returning(f, NIL, TRUE))
                    /\ UNCHANGED readers
               ELSE /\ readers' = [readers EXCEPT ![f.rd] = v.pos]
                    /\ stack' = SetTop([f EXCEPT
                           !.i = f.i + 1,
                           !.attributes =
                               (af.Name :> [ref |-> FALSE, die |-> NIL, err |-> FALSE,
                                            target |-> 0, raw |-> v.raw])
                               @@ f.attributes])
                    /\ UNCHANGED dieMap
    /\ UNCHANGED <<elf, info, compUnits, compUnitsNil, heap, ret, calls, failed>>

\* die.Attributes = attributes
AttrsDone ==
    /\ ~Idle /\ Top.pc = "attr" /\ Top.i > Len(Entry(Top).AttrForms)
    /\ heap' = [heap EXCEPT ![Top.die].Attributes = Top.attributes]
    /\ stack' = SetTop([Top EXCEPT !.pc = "child"])
    /\ UNCHANGED <<elf, debugStrTblNil, info, compUnits, compUnitsNil, dieMap, readers, ret, calls, failed>>

\* The head of the loop over the children: the call for the next child, or
\* with no children the end of the DIE.
ChildLoop ==
    /\ ~Idle /\ Top.pc = "child"
    /\ LET f == Top IN
       IF Entry(f).HasChildren
       THEN /\ stack' = Append(stack, NewFrame(f.u, f.rd, f.die, "child"))
            /\ UNCHANGED heap
       ELSE /\ heap' = [heap EXCEPT ![f.die].endOffset = readers[f.rd]]
            /\ stack' = SetTop(Returning(f, f.die, FALSE))
    /\ UNCHANGED <<elf, debugStrTblNil, info, compUnits, compUnitsNil, dieMap, readers, ret, calls, failed>>

\* The return of readDIETreeHelper to readAttrRef (through readDIETree),
\* which hands the DIE to readAttr with a nil error whatever the error was.
\* The attribute value is the DIE; target and err record, for the
\* properties only, the offset that was resolved and the error that
\* readAttrRef dropped.
ReturnToRef ==
    /\ Len(stack) >= 2 /\ Top.pc = "ret" /\ Top.kind = "ref"
    /\ LET c  == Top
           f  == stack[Len(stack) - 1]
           af == Entry(f).AttrForms[f.i]
       IN
       /\ readers' = SubSeq(readers, 1, Len(readers) - 1)
       /\ stack' = Append(SubSeq(stack, 1, Len(stack) - 2),
                          [f EXCEPT
                             !.i = f.i + 1,
                             !.attributes = (af.Name :> [ref |-> TRUE, die |-> c.res, err |-> c.err,
                                                         target |-> f.target, raw |-> <<>>])
                                            @@ f.attributes])
    /\ UNCHANGED <<elf, debugStrTblNil, info, compUnits, compUnitsNil, dieMap, heap, ret, calls, failed>>

\* The return of readDIETreeHelper to the loop over the children of its
\* caller: an error removes the caller's DIE from the cache and is passed
\* on, a null entry ends the caller's DIE, a DIE is appended.
ReturnToParent ==
    /\ Len(stack) >= 2 /\ Top.pc = "ret" /\ Top.kind = "child"
    /\ LET c == Top
           f == stack[Len(stack) - 1]
           rest == SubSeq(stack, 1, Len(stack) - 2)
       IN
       IF c.err
       THEN /\ dieMap' = Delete(dieMap, f.offset)
            /\ stack' = Append(rest, Returning(f, NIL, TRUE))
            /\ UNCHANGED heap
       ELSE IF c.res = NIL
       THEN /\ heap' = [heap EXCEPT ![f.die].endOffset = readers[f.rd]]
            /\ stack' = Append(rest, Returning(f, f.die, FALSE))
            /\ UNCHANGED dieMap
       ELSE /\ heap' = [heap EXCEPT
                           ![f.die].Children = AppendChild(heap[f.die].Children, c.res)]
            /\ stack' = Append(rest, f)
            /\ UNCHANGED dieMap
    /\ UNCHANGED <<elf, debugStrTblNil, info, compUnits, compUnitsNil, readers, ret, calls, failed>>

\* The return of readDIETree to DIETree: u.dieTree, err = ...
DIETreeReturn ==
    /\ Len(stack) = 1 /\ Top.pc = "ret"
    /\ ret.op = "DIETree"
    /\ compUnits' = [compUnits EXCEPT ![Top.u].dieTree = Top.res]
    /\ ret' = [op |-> "DIETree", u |-> Top.u, die |-> Top.res, err |-> Top.err,
               units |-> <<>>]
    /\ stack' = <<>>
    /\ readers' = <<>>
    /\ failed' = (failed \/ Top.err)
    /\ UNCHANGED <<elf, debugStrTblNil, info, compUnitsNil, dieMap, heap, calls>>

\* The first unit of .debug_info, as CompUnits makes it.
FirstUnit == CompUnitsLoop(info, 0, <<>>).units[1]

\* DwData.readLocList(u, 0, en) and DwData.readRangeList(u, 0, en) for the
\* first unit: the decoding of the list at the start of .debug_loc and of
\* .debug_ranges.
ReadLocListCall ==
    /\ Idle
    /\ LET r == readLocListAt(FirstUnit, 0) IN
       ret' = [op |-> "readLocList", u |-> 0, die |-> NIL, err |-> r.err,
               units |-> <<>>, list |-> r.list]
    /\ UNCHANGED <<elf, debugStrTblNil, info, compUnits, compUnitsNil, dieMap, heap, stack, readers,
                   calls, failed>>

ReadRangeListCall ==
    /\ Idle
    /\ LET r == readRangeListAt(0) IN
       ret' = [op |-> "readRangeList", u |-> 0, die |-> NIL, err |-> r.err,
               units |-> <<>>, list |-> r.list]
    /\ UNCHANGED <<elf, debugStrTblNil, info, compUnits, compUnitsNil, dieMap, heap, stack, readers,
                   calls, failed>>

\* A file with one unit, and lists in .debug_loc and .debug_ranges for
\* either address size.
InitList ==
    /\ addressSize \in {4, 8}
    /\ \E shape \in ListShapes :
          /\ debugLoc = EncodeList(shape, 1, addressSize, TRUE)
          /\ debugLine = <<>>
          /\ debugRanges = EncodeList(shape, 1, addressSize, FALSE)
    /\ debugAbbrev = DebugAbbrev
    /\ FileAsLoaded
    /\ info = UnitBytes(0, EmptyBody)
    /\ compUnits = <<>>
    /\ compUnitsNil = TRUE
    /\ dieMap = [o \in {} |-> NIL]
    /\ heap = <<>>
    /\ stack = <<>>
    /\ readers = <<>>
    /\ ret = NoReturn
    /\ calls = 0
    /\ failed = FALSE

NextList == ReadLocListCall \/ ReadRangeListCall

SpecList == InitList /\ [][NextList]_vars

\* The steps of a running DIETree call.
Step ==
    \/ HelperEnter
    \/ ReadAttr
    \/ AttrsDone
    \/ ChildLoop
    \/ ReturnToRef
    \/ ReturnToParent
    \/ DIETreeReturn

Next ==
    \/ CompUnitsCall
    \/ \E k \in 1..MaxUnits : DIETreeCall(k)
    \/ Step

Spec == Init /\ [][Next]_vars

\* A running call is not suspended: the decoder is single-threaded and
\* synchronous.
FairSpec == Spec /\ WF_vars(Step)

(***************************************************************************)
(* The abbreviation tables of a file                                       *)
(***************************************************************************)

\* What is not touched while one section of a file is read on its own.
NotDecoding ==
    /\ FileAsLoaded
    /\ compUnits = <<>>
    /\ compUnitsNil = TRUE
    /\ dieMap = [o \in {} |-> NIL]
    /\ heap = <<>>
    /\ stack = <<>>
    /\ readers = <<>>
    /\ ret = NoReturn
    /\ calls = 0
    /\ failed = FALSE

\* The unsigned LEB128 encoding of n.
RECURSIVE EncodeULEB(_)
EncodeULEB(n) ==
    IF n < 128 THEN <<n>> ELSE <<128 + (n % 128)>> \o EncodeULEB(n \div 128)

\* The declarations that the modelled .debug_abbrev sections hold: one
\* declaration and those that differ from it in the code, in the tag, in
\* the has-children byte or in the (name, form) pairs.  A pair with one
\* zero does not end the pairs.
MaxAbbrevs == 2

BaseDecl == [code |-> 1, tag |-> 17, children |-> 1, attrs |-> <<<<3, 8>>>>]

AbbrevDecls ==
    {[BaseDecl EXCEPT !.code = c] : c \in {1, 2, 200}}
    \cup {[BaseDecl EXCEPT !.tag = 16647]}
    \cup {[BaseDecl EXCEPT !.children = b] : b \in {0, 2}}
    \cup {[BaseDecl EXCEPT !.attrs = a] :
            a \in {<<>>, <<<<0, 11>>, <<73, 0>>>>, <<<<8455, 25>>, <<3, 8>>>>}}

AbbrevShapes == UNION {[1..n -> AbbrevDecls] : n \in 0..MaxAbbrevs}

RECURSIVE EncodeAttrForms(_, _)
EncodeAttrForms(attrs, i) ==
    IF i > Len(attrs) THEN <<0, 0>>
    ELSE EncodeULEB(attrs[i][1]) \o EncodeULEB(attrs[i][2]) \o EncodeAttrForms(attrs, i + 1)

EncodeDecl(d) ==
    EncodeULEB(d.code) \o EncodeULEB(d.tag) \o <<d.children>> \o EncodeAttrForms(d.attrs, 1)

RECURSIVE EncodeAbbrevs(_, _)
EncodeAbbrevs(shape, i) ==
    IF i > Len(shape) THEN <<NullAbbrevEntry>>
    ELSE EncodeDecl(shape[i]) \o EncodeAbbrevs(shape, i + 1)

AbbrevEncodings == [s \in AbbrevShapes |-> EncodeAbbrevs(s, 1)]

\* The offsets AbbrevTable is called with: the start of the section and
\* the table after one declaration of five bytes.
AbbrevCallOffsets == {0, Len(EncodeDecl(BaseDecl))}

\* DwData.AbbrevTable(offset).
AbbrevTableCall(offset) ==
    /\ LET r == AbbrevTable(debugAbbrev, offset) IN
       ret' = [op |-> "AbbrevTable", u |-> 0, die |-> NIL, err |-> ~r.ok,
               units |-> <<>>, offset |-> offset, table |-> r.table]
    /\ UNCHANGED <<elf, debugStrTblNil, info, compUnits, compUnitsNil, dieMap, heap, stack, readers,
                   calls, failed>>

\* A file whose .debug_abbrev holds one table, whole or cut short by one
\* byte.
InitAbbrev ==
    /\ addressSize = 8
    /\ debugLoc = <<>>
    /\ debugLine = <<>>
    /\ debugRanges = <<>>
    /\ \E s \in AbbrevShapes :
          \/ debugAbbrev = AbbrevEncodings[s]
          \/ debugAbbrev = SubSeq(AbbrevEncodings[s], 1, Len(AbbrevEncodings[s]) - 1)
    /\ info = UnitBytes(0, EmptyBody)
    /\ NotDecoding

NextAbbrev == \E offset \in AbbrevCallOffsets : AbbrevTableCall(offset)

SpecAbbrev == InitAbbrev /\ [][NextAbbrev]_vars

(***************************************************************************)
(* DWARF expressions                                                       *)
(***************************************************************************)

\* The bytes a reader holds where an expression starts: the modelled
\* opcodes, the byte 0 (no opcode) and a byte with the high bit set (the
\* first byte of a two-byte LEB128 operand).
MaxExprBytes == 3

ExprByte == {0, DW_OP_deref, DW_OP_const1u, DW_OP_const2u, DW_OP_plus_uconst, 129}

\* One DW_OP_implicit_pointer or DW_OP_GNU_implicit_pointer operation for a
\* unit of the given format: the opcode, the offset 5 in 4 or 8 bytes and a
\* LEB128 number of one or two bytes.
ImplicitPointers(format) ==
    {<<op>> \o (IF format = DwFormat32 THEN <<5, 0, 0, 0>> ELSE U64(5)) \o constant :
        op \in {DW_OP_implicit_pointer, DW_OP_GNU_implicit_pointer},
        constant \in {<<0>>, <<1>>, <<63>>, <<64>>, <<127>>, <<128, 1>>, <<255, 0>>,
                      <<255, 127>>, <<128, 127>>}}

ExprInputs ==
    UNION {[1..n -> ExprByte] : n \in 0..MaxExprBytes}
    \cup ImplicitPointers(DwFormat32) \cup ImplicitPointers(DwFormat64)

\* DwData.readDwExpr(u, r, en, l) for the first unit on a reader at the
\* start of .debug_loc;
\* consumed is the position of the reader after the call.
ReadDwExprCall(l) ==
    /\ LET r == readDwExpr(FirstUnit, debugLoc, 0, l) IN
       ret' = [op |-> "readDwExpr", u |-> 0, die |-> NIL, err |-> ~r.ok,
               units |-> <<>>, l |-> l, expr |-> r.expr, consumed |-> r.pos]
    /\ UNCHANGED <<elf, debugStrTblNil, info, compUnits, compUnitsNil, dieMap, heap, stack, readers,
                   calls, failed>>

InitExpr ==
    /\ addressSize = 8
    /\ debugLoc \in ExprInputs
    /\ debugLine = <<>>
    /\ debugRanges = <<>>
    /\ debugAbbrev = DebugAbbrev
    /\ info \in {UnitBytes(0, EmptyBody), Unit64Bytes(0, EmptyBody)}
    /\ NotDecoding

NextExpr == \E l \in 0..MaxExprBytes : ReadDwExprCall(l)

SpecExpr == InitExpr /\ [][NextExpr]_vars

(***************************************************************************)
(* LEB128 numbers                                                          *)
(***************************************************************************)

\* The bytes a reader holds where a LEB128 number starts: up to
\* MaxLebBytes + 1 bytes with the bit 0x80, the first of them and the
\* others chosen apart, then a byte without it or the end of the data (a
\* number cut short), then the bytes of what follows the number.  The 10th
\* byte of a number is shifted by 63 and the 11th by 70.
MaxLebBytes == 10

Repeat(b, n) == [i \in 1..n |-> b]

LebInputs ==
    {first \o Repeat(c, n) \o last \o after :
        first \in {<<>>, <<229>>},
        c     \in {128, 129, 170, 255},
        n     \in 0..MaxLebBytes,
        last  \in {<<>>, <<0>>, <<1>>, <<2>>, <<63>>, <<64>>, <<127>>},
        after \in {<<>>, <<5>>}}

\* leb128.ReadUnsigned(r) and leb128.ReadSigned(r) on a reader at the start
\* of .debug_abbrev; consumed is the position of the reader after the call.
ReadUnsignedCall ==
    /\ LET r == ReadUnsigned64(debugAbbrev, 0) IN
       ret' = [op |-> "ReadUnsigned", u |-> 0, die |-> NIL, err |-> ~r.ok,
               units |-> <<>>, res |-> r.res, consumed |-> r.pos]
    /\ UNCHANGED <<elf, debugStrTblNil, info, compUnits, compUnitsNil, dieMap, heap, stack, readers,
                   calls, failed>>

ReadSignedCall ==
    /\ LET r == ReadSigned64(debugAbbrev, 0) IN
       ret' = [op |-> "ReadSigned", u |-> 0, die |-> NIL, err |-> ~r.ok,
               units |-> <<>>, res |-> r.res, consumed |-> r.pos]
    /\ UNCHANGED <<elf, debugStrTblNil, info, compUnits, compUnitsNil, dieMap, heap, stack, readers,
                   calls, failed>>

InitLeb ==
    /\ addressSize = 8
    /\ debugLoc = <<>>
    /\ debugLine = <<>>
    /\ debugRanges = <<>>
    /\ debugAbbrev \in LebInputs
    /\ info = UnitBytes(0, EmptyBody)
    /\ NotDecoding

NextLeb == ReadUnsignedCall \/ ReadSignedCall

SpecLeb == InitLeb /\ [][NextLeb]_vars

(***************************************************************************)
(* The integer readers of constant attributes                              *)
(***************************************************************************)

\* The bytes a reader holds where the value of a constant attribute starts
\* (the bytes of the section before it are left out): LEB128 numbers at the
\* edges of 16 and of 32 bits, which also read as fixed-width values, a
\* number cut short and two 8-byte values.
IntInputs ==
    {<<0>>, <<1>>, <<127>>, <<128>>, <<128, 1>>, <<255, 1>>, <<255, 127>>,
     <<255, 255, 1>>, <<128, 128, 2>>, <<255, 255, 3>>, <<128, 128, 4>>,
     <<128, 128, 126>>, <<255, 255, 125>>,
     <<255, 255, 255, 255, 7>>, <<128, 128, 128, 128, 8>>,
     <<255, 255, 255, 255, 15>>, <<128, 128, 128, 128, 16>>,
     <<128, 128, 128, 128, 120>>, <<255, 255, 255, 255, 119>>,
     <<1, 0, 0, 0, 0, 0, 0, 0>>, <<0, 0, 1, 0, 1, 0, 0, 128>>}

IntForms ==
    {DW_FORM_data1, DW_FORM_data2, DW_FORM_data4, DW_FORM_data8, DW_FORM_sdata,
     DW_FORM_udata}

IntReturn(reader, f, r) ==
    [op |-> reader, u |-> 0, die |-> NIL, err |-> ~r.ok, units |-> <<>>, f |-> f,
     res |-> IF r.ok THEN r.res ELSE <<>>]

\* DwData.readAttrUint16, readAttrUint32, readAttrInt16 and readAttrInt32
\* with the form f, on a reader over the bytes of info.
ReadAttrUint16Call(f) ==
    /\ ret' = IntReturn("readAttrUint16", f, readAttrUint16(NIL, info, 0, f))
    /\ UNCHANGED <<elf, debugStrTblNil, info, compUnits, compUnitsNil, dieMap, heap, stack, readers,
                   calls, failed>>

ReadAttrUint32Call(f) ==
    /\ ret' = IntReturn("readAttrUint32", f, readAttrUint32(NIL, info, 0, f))
    /\ UNCHANGED <<elf, debugStrTblNil, info, compUnits, compUnitsNil, dieMap, heap, stack, readers,
                   calls, failed>>

ReadAttrInt16Call(f) ==
    /\ ret' = IntReturn("readAttrInt16", f, readAttrInt16(NIL, info, 0, f))
    /\ UNCHANGED <<elf, debugStrTblNil, info, compUnits, compUnitsNil, dieMap, heap, stack, readers,
                   calls, failed>>

ReadAttrInt32Call(f) ==
    /\ ret' = IntReturn("readAttrInt32", f, readAttrInt32(NIL, info, 0, f))
    /\ UNCHANGED <<elf, debugStrTblNil, info, compUnits, compUnitsNil, dieMap, heap, stack, readers,
                   calls, failed>>

InitInt ==
    /\ addressSize = 8
    /\ debugLoc = <<>>
    /\ debugLine = <<>>
    /\ debugRanges = <<>>
    /\ debugAbbrev = DebugAbbrev
    /\ info \in IntInputs
    /\ NotDecoding

NextInt ==
    \E f \in IntForms :
        \/ ReadAttrUint16Call(f)
        \/ ReadAttrUint32Call(f)
        \/ ReadAttrInt16Call(f)
        \/ ReadAttrInt32Call(f)

SpecInt == InitInt /\ [][NextInt]_vars

(***************************************************************************)
(* Section.Data and Section.NewReader: the bytes of a section are read     *)
(* from the file when they are first asked for                             *)
(***************************************************************************)

\* Times are counted in ticks of the clock that stamps files, up to
\* MaxTime; time.Time.Unix() is the number of whole seconds.
MaxTime == 4
TicksPerSecond == 2

Unix(t) == t \div TicksPerSecond

\* The contents a file has in its section.
FileContents == {<<1>>, <<2>>}

Tick ==
    /\ now < MaxTime
    /\ now' = now + 1
    /\ UNCHANGED <<sections, debugStrTblNil, file, section, info, compUnits, compUnitsNil, dieMap, heap,
                   stack, readers, ret, calls, failed>>

\* Another program writes the file: the file system stamps it with the
\* time, which is later than its last stamp.
ModifyFile ==
    /\ now > file.modTime
    /\ \E d \in FileContents : file' = [modTime |-> now, data |-> d]
    /\ UNCHANGED <<sections, debugStrTblNil, now, section, info, compUnits, compUnitsNil, dieMap, heap,
                   stack, readers, ret, calls, failed>>

\* Section.Data up to its return: an error when the file carries a later
\* second than section.modTime, else the cached bytes, else the bytes of the
\* file, which are cached (a nil slice when the section is empty).
Data ==
    IF Unix(section.modTime) < Unix(file.modTime)
    THEN [err |-> TRUE, data |-> <<>>, section |-> section]
    ELSE IF ~section.dataNil
    THEN [err |-> FALSE, data |-> section.data, section |-> section]
    ELSE [err     |-> FALSE,
          data    |-> file.data,
          section |-> [section EXCEPT !.dataNil = (file.data = <<>>),
                                      !.data = file.data]]

\* stale records that the file was written after it was loaded when the
\* call was made.
SectionReturn(op, r) ==
    [op |-> op, u |-> 0, die |-> NIL, err |-> r.err, units |-> <<>>, data |-> r.data,
     stale |-> file.modTime # section.modTime]

SectionData ==
    /\ ret' = SectionReturn("Section.Data", Data)
    /\ section' = Data.section
    /\ UNCHANGED <<sections, debugStrTblNil, now, file, info, compUnits, compUnitsNil, dieMap, heap,
                   stack, readers, calls, failed>>

\* Section.NewReader: a reader over the bytes Data returns.
SectionNewReader ==
    /\ ret' = SectionReturn("Section.NewReader", Data)
    /\ section' = Data.section
    /\ UNCHANGED <<sections, debugStrTblNil, now, file, info, compUnits, compUnitsNil, dieMap, heap,
                   stack, readers, calls, failed>>

\* newSection: the container is loaded at some time from a file that was
\* last written at that time or before.
InitFile ==
    /\ addressSize = 8
    /\ debugLoc = <<>>
    /\ debugLine = <<>>
    /\ debugRanges = <<>>
    /\ debugAbbrev = DebugAbbrev
    /\ debugStr = <<>>
    /\ sectMap = AllSections
    /\ debugStrTblNil = TRUE
    /\ now \in 0..MaxTime
    /\ \E t \in 0..now, d \in FileContents : file = [modTime |-> t, data |-> d]
    /\ section = [modTime |-> file.modTime, dataNil |-> TRUE, data |-> <<>>]
    /\ info = UnitBytes(0, EmptyBody)
    /\ compUnits = <<>>
    /\ compUnitsNil = TRUE
    /\ dieMap = [o \in {} |-> NIL]
    /\ heap = <<>>
    /\ stack = <<>>
    /\ readers = <<>>
    /\ ret = NoReturn
    /\ calls = 0
    /\ failed = FALSE

NextFile == Tick \/ ModifyFile \/ SectionData \/ SectionNewReader

SpecFile == InitFile /\ [][NextFile]_vars

(***************************************************************************)
(* The string table (DwData.DebugStr, DebugStrTbl.ReadStr)                 *)
(***************************************************************************)

\* The bytes of .debug_str: strings of the two letters a and b, with and
\* without the NUL that ends the last one.
MaxStrLen == 4

StrInputs == UNION {[1..n -> {ASCII_NULL, 97, 98}] : n \in 0..MaxStrLen}

\* DwData.DebugStr
DebugStrCall ==
    /\ stack = <<>>
    /\ ret' = [op |-> "DebugStr", u |-> 0, die |-> NIL, err |-> ~DebugStr.ok,
               units |-> <<>>]
    /\ debugStrTblNil' = DebugStr.nil
    /\ UNCHANGED <<elf, info, compUnits, compUnitsNil, dieMap, heap, stack, readers,
                   calls, failed>>

\* DebugStrTbl.ReadStr(offset) on the table DebugStr returned.
ReadStrCall(offset) ==
    /\ ~debugStrTblNil
    /\ LET r == ReadStr(debugStr, offset) IN
       ret' = [op |-> "ReadStr", u |-> 0, die |-> NIL, err |-> ~r.ok, units |-> <<>>,
               offset |-> offset, str |-> r.str]
    /\ UNCHANGED <<elf, debugStrTblNil, info, compUnits, compUnitsNil, dieMap, heap,
                   stack, readers, calls, failed>>

InitStr ==
    /\ addressSize = 8
    /\ debugLoc = <<>>
    /\ debugLine = <<>>
    /\ debugRanges = <<>>
    /\ debugAbbrev = DebugAbbrev
    /\ debugStr \in StrInputs
    /\ sectMap = AllSections
    /\ debugStrTblNil = TRUE
    /\ now = 0
    /\ file = [modTime |-> 0, data |-> <<>>]
    /\ section = [modTime |-> 0, dataNil |-> TRUE, data |-> <<>>]
    /\ info = UnitBytes(0, EmptyBody)
    /\ compUnits = <<>>
    /\ compUnitsNil = TRUE
    /\ dieMap = [o \in {} |-> NIL]
    /\ heap = <<>>
    /\ stack = <<>>
    /\ readers = <<>>
    /\ ret = NoReturn
    /\ calls = 0
    /\ failed = FALSE

NextStr == DebugStrCall \/ \E offset \in 0..(MaxStrLen + 1) \cup {HUGE} : ReadStrCall(offset)

SpecStr == InitStr /\ [][NextStr]_vars

(***************************************************************************)
(* Line number information (DwData.readLineNumberInfo)                     *)
(***************************************************************************)

\* The standard and the extended opcodes of the line number program that
\* readLineNumberInfo names.
DW_LNS_copy == 1
DW_LNS_advance_pc == 2
DW_LNS_advance_line == 3
DW_LNS_set_file == 4
DW_LNS_set_column == 5
DW_LNS_negate_stmt == 6
DW_LNS_set_basic_block == 7
DW_LNS_const_add_pc == 8
DW_LNS_fixed_advance_pc == 9
DW_LNS_set_prologue_end == 10
DW_LNS_set_epilogue_begin == 11
DW_LNS_set_isa == 12
DW_LNE_end_sequence == 1
DW_LNE_set_address == 2
DW_LNE_define_file == 3
DW_LNE_set_discriminator == 4

DwLnOpcodeSpecial == 1
DwLnOpcodeStd == 2
DwLnOpcodeExt == 3

\* leb128.Read: the bytes of the LEB128 number at pos, up to and including
\* the first one without the bit 0x80.
Read(data, pos) ==
    LET s == LebScan(data, pos) IN
    [ok |-> s.ok, n |-> IF s.ok THEN SubSeq(data, pos + 1, s.pos) ELSE <<>>, pos |-> s.pos]

\* leb128.Encode of the unsigned number whose little-endian bytes are
\* bytes: its 7-bit groups, lowest first, up to the highest group that is
\* not zero, each but the last with the bit 0x80.
Encode(bytes) ==
    LET bit(k) == IF k > 8 * Len(bytes) THEN 0
                  ELSE (bytes[((k - 1) \div 8) + 1] \div Pow2((k - 1) % 8)) % 2
        group(i) == DigitsValue([j \in 1..7 |-> bit(7 * (i - 1) + j)], 2, 1)
        used == {i \in 1..10 : group(i) # 0}
        last == IF used = {} THEN 1 ELSE CHOOSE i \in used : \A j \in used : j <= i
    IN  [i \in 1..last |-> IF i < last THEN 128 + group(i) ELSE group(i)]

LnFailed == [ok |-> FALSE]

\* The directory entries of the header: strings up to the empty one.
RECURSIVE ReadDirectories(_, _, _)
ReadDirectories(data, pos, dirs) ==
    LET dir == ReadCString(data, pos) IN
    IF ~dir.ok THEN LnFailed
    ELSE IF Len(dir.str) = 0 THEN [ok |-> TRUE, Directories |-> dirs, pos |-> dir.pos]
    ELSE ReadDirectories(data, dir.pos, Append(dirs, dir.str))

\* The file entries of the header: a path, then the directory index, the
\* time stamp and the size, up to the empty path.
RECURSIVE ReadFiles(_, _, _)
ReadFiles(data, pos, files) ==
    LET Path == ReadCString(data, pos) IN
    IF ~Path.ok THEN LnFailed
    ELSE IF Len(Path.str) = 0 THEN [ok |-> TRUE, Files |-> files, pos |-> Path.pos]
    ELSE
    LET DirIndex == ReadUnsigned(data, Path.pos) IN
    IF ~DirIndex.ok THEN LnFailed
    ELSE
    LET Timestamp == ReadUnsigned(data, DirIndex.pos) IN
    IF ~Timestamp.ok THEN LnFailed
    ELSE
    LET Size == ReadUnsigned(data, Timestamp.pos) IN
    IF ~Size.ok THEN LnFailed
    ELSE ReadFiles(data, Size.pos,
                   Append(files, [Path |-> Path.str, DirIndex |-> DirIndex.val,
                                  Timestamp |-> Timestamp.val, Size |-> Size.val]))

\* The initial length of the line number information at pos: 4 bytes, or
\* 0xffffffff and 8 bytes.  Size is lenSize + len64, a uint64.
ReadLnLength(data, pos) ==
    LET len32 == ReadBytes(data, pos, 4) IN
    IF ~len32.ok THEN LnFailed
    ELSE IF len32.bytes = <<255, 255, 255, 255>>
    THEN LET len64 == ReadBytes(data, pos + 4, 8) IN
         IF ~len64.ok THEN LnFailed
         ELSE [ok |-> TRUE, Size |-> LEValue(U64Add(len64.bytes, 12)), pos |-> pos + 12]
    ELSE [ok |-> TRUE, Size |-> LEValue(U64Add(Widen32(len32.bytes), 4)), pos |-> pos + 4]

\* The header after its initial length and its version, up to the operand
\* count table.  The fields between the version and the table have fixed
\* widths and each of them is read or the decoding fails, so they are read
\* together: address_size and segment_selector_size (version 5 and later),
\* header_length (4 or 8 bytes by the format of the unit, skipped),
\* minimum_instruction_length, maximum_operations_per_instruction (version
\* 4 and later), default_is_stmt, line_base, line_range and opcode_base.
\* The table has one byte for each i with 1 <= i < opcode_base.
ReadLnFields(u, data, length, Version) ==
    IF ~length.ok THEN LnFailed
    ELSE IF ~Version.ok THEN LnFailed
    ELSE
    LET fields == ReadBytes(data, Version.pos,
                            (IF Version.val >= 5 THEN 2 ELSE 0)
                            + (IF u.Format = DwFormat32 THEN 4 ELSE 8)
                            + (IF Version.val >= 4 THEN 6 ELSE 5))
    IN
    IF ~fields.ok THEN LnFailed
    ELSE
    LET opcodeBase == fields.bytes[Len(fields.bytes)]
        table      == ReadBytes(data, fields.pos, IF opcodeBase = 0 THEN 0 ELSE opcodeBase - 1)
    IN
    IF ~table.ok THEN LnFailed
    ELSE [ok              |-> TRUE,
          Size            |-> length.Size,
          Version         |-> Version.val,
          opcodeBase      |-> opcodeBase,
          operandCountTbl |-> table.bytes,
          Directories     |-> <<>>,
          Files           |-> <<>>,
          Program         |-> <<>>,
          pos             |-> table.pos]

\* The header of the line number information at pos: the initial length,
\* the version (2 bytes), the fields and the operand count table.
ReadLnHeader(u, data, pos) ==
    ReadLnFields(u, data, ReadLnLength(data, pos),
                 ReadFixed(data, ReadLnLength(data, pos).pos, 2))

LnInstr(opcode, type, operands, pos) ==
    [ok |-> TRUE, pos |-> pos,
     instr |-> [Opcode |-> opcode, OpcodeType |-> type, Operands |-> operands]]

\* One turn of the loop over the line number program: the instruction at
\* pos.  An extended opcode follows a zero byte and the size of the
\* instruction; a standard opcode is below opcode_base and takes the
\* operands that the switch gives it: none for an opcode that the switch
\* does not name; a special opcode has no operand.
ReadLnInstr(data, pos, opcodeBase, addrSize) ==
    LET b == ReadBytes(data, pos, 1) IN
    IF ~b.ok THEN LnFailed
    ELSE IF b.bytes[1] = 0
    THEN LET size == Read(data, b.pos) IN
         IF ~size.ok THEN LnFailed
         ELSE
         LET e == ReadBytes(data, size.pos, 1) IN
         IF ~e.ok THEN LnFailed
         ELSE IF e.bytes[1] = DW_LNE_set_address
         THEN IF addrSize \notin {1, 2, 4, 8} THEN LnFailed
              ELSE LET addr == ReadBytes(data, e.pos, addrSize) IN
                   IF ~addr.ok THEN LnFailed
                   ELSE LnInstr(e.bytes[1], DwLnOpcodeExt, <<Encode(addr.bytes)>>, addr.pos)
         ELSE IF e.bytes[1] = DW_LNE_define_file THEN LnFailed
         ELSE IF e.bytes[1] = DW_LNE_set_discriminator
         THEN LET operand == Read(data, e.pos) IN
              IF ~operand.ok THEN LnFailed
              ELSE LnInstr(e.bytes[1], DwLnOpcodeExt, <<operand.n>>, operand.pos)
         ELSE LnInstr(e.bytes[1], DwLnOpcodeExt, <<>>, e.pos)
    ELSE IF b.bytes[1] < opcodeBase
    THEN IF b.bytes[1] \in {DW_LNS_advance_pc, DW_LNS_advance_line, DW_LNS_set_file,
                            DW_LNS_set_column, DW_LNS_set_isa}
         THEN LET operand == Read(data, b.pos) IN
              IF ~operand.ok THEN LnFailed
              ELSE LnInstr(b.bytes[1], DwLnOpcodeStd, <<operand.n>>, operand.pos)
         ELSE IF b.bytes[1] = DW_LNS_fixed_advance_pc
         THEN LET operand16 == ReadBytes(data, b.pos, 2) IN
              IF ~operand16.ok THEN LnFailed
              ELSE LnInstr(b.bytes[1], DwLnOpcodeStd, <<Encode(operand16.bytes)>>,
                           operand16.pos)
         ELSE LnInstr(b.bytes[1], DwLnOpcodeStd, <<>>, b.pos)
    ELSE LnInstr(b.bytes[1], DwLnOpcodeSpecial, <<>>, b.pos)

\* for uint64(initLen-sectReader.Len()) < lnInfo.Size: the instructions
\* from pos on, while fewer than Size bytes have been read since start.
RECURSIVE ReadLnProgram(_, _, _, _, _, _)
ReadLnProgram(data, start, pos, lnInfo, addrSize, program) ==
    IF ~(lnInfo.Size = HUGE \/ pos - start < lnInfo.Size)
    THEN [lnInfo EXCEPT !.Program = program, !.pos = pos]
    ELSE LET i == ReadLnInstr(data, pos, lnInfo.opcodeBase, addrSize) IN
         IF ~i.ok THEN LnFailed
         ELSE ReadLnProgram(data, start, i.pos, lnInfo, addrSize, Append(program, i.instr))

\* readLineNumberInfo after the header: the directories and the files,
\* then the program.  The information of version 5 and later ends with the
\* operand count table.
ReadLnProgramAfter(data, start, header, dirs, files, addrSize) ==
    IF ~dirs.ok THEN LnFailed
    ELSE IF ~files.ok THEN LnFailed
    ELSE ReadLnProgram(data, start, files.pos,
                       [header EXCEPT !.Directories = dirs.Directories,
                                      !.Files = files.Files],
                       addrSize, <<>>)

ReadLnTablesAfter(data, start, header, dirs, addrSize) ==
    IF ~header.ok THEN LnFailed
    ELSE IF header.Version >= 5 THEN header
    ELSE ReadLnProgramAfter(data, start, header, dirs,
                            ReadFiles(data, dirs.pos, <<>>), addrSize)

ReadLnAfterHeader(data, start, header, addrSize) ==
    ReadLnTablesAfter(data, start, header, ReadDirectories(data, header.pos, <<>>), addrSize)

\* The decoding of readLineNumberInfo once the reader of .debug_line is at
\* offset: the header, and what follows it.
DecodeLnInfo(u, data, offset, addrSize) ==
    ReadLnAfterHeader(data, SeekPos(data, offset),
                      ReadLnHeader(u, data, SeekPos(data, offset)), addrSize)

\* The line number programs that are decoded have at most MaxInstrs of the
\* instructions of LnInstrs.
MaxInstrs == 2

\* The operand counts that the DWARF standard gives the opcodes 1 to 12.
StdOperandCounts == <<0, 1, 1, 1, 1, 0, 0, 0, 1, 0, 0, 1>>

\* The operand count tables of the modelled headers: the standard one; the
\* standard one and an opcode 13 that takes one operand or none
\* (opcode_base 14); the first nine opcodes only (opcode_base 10); and one
\* that gives DW_LNS_copy an operand.
OperandCountTbls ==
    {StdOperandCounts, StdOperandCounts \o <<1>>, StdOperandCounts \o <<0>>,
     SubSeq(StdOperandCounts, 1, 9), <<1>> \o Tail(StdOperandCounts)}

\* The instructions of the modelled programs, as bytes.  13 7 is the opcode
\* 13 with the operand 7 under a table that gives it one operand.
LnInstrs(addrSize) ==
    {<<DW_LNS_copy>>, <<DW_LNS_advance_pc, 5>>, <<DW_LNS_advance_line, 133, 1>>,
     <<DW_LNS_fixed_advance_pc, 1, 0>>, <<DW_LNS_set_isa, 1>>,
     <<13, 7>>, <<20>>,
     <<0, 1, DW_LNE_end_sequence>>,
     <<0, addrSize + 1, DW_LNE_set_address, 200, 1>> \o [i \in 1..(addrSize - 2) |-> 0],
     <<0, 2, DW_LNE_set_discriminator, 7>>,
     <<0, 1, DW_LNE_define_file>>}

RECURSIVE LnPrograms(_, _)
LnPrograms(addrSize, n) ==
    IF n = 0 THEN {<<>>}
    ELSE LnPrograms(addrSize, n - 1)
         \cup {p \o i : p \in LnPrograms(addrSize, n - 1), i \in LnInstrs(addrSize)}

\* The line number information of one unit in the 32-bit format of
\* .debug_line: unit_length, version, address_size 8 and
\* segment_selector_size 0 (version 5), header_length (of 4 or 8 bytes, as
\* the decoder takes it from the format of the unit), minimum_instruction_length
\* 1, maximum_operations_per_instruction 1 (version 4), default_is_stmt 1,
\* line_base -5, line_range 14, opcode_base and the operand count table, the
\* directory "a", the file "b" of directory 1, and the program.
LineTable(format, version, tbl, prog) ==
    LET fields == <<1>> \o (IF version >= 4 THEN <<1>> ELSE <<>>) \o
                  <<1, 251, 14, Len(tbl) + 1>> \o tbl \o
                  <<97, 0, 0>> \o <<98, 0, 1, 0, 0, 0>>
        length == IF format = DwFormat32 THEN <<Len(fields), 0, 0, 0>> ELSE U64(Len(fields))
        rest   == <<version, 0>> \o (IF version >= 5 THEN <<8, 0>> ELSE <<>>) \o
                  length \o fields \o prog
    IN  <<Len(rest), 0, 0, 0>> \o rest

LineInputs(format, addrSize) ==
    {LineTable(format, version, tbl, prog) :
        version \in {3, 4}, tbl \in OperandCountTbls, prog \in LnPrograms(addrSize, MaxInstrs)}
    \cup {LineTable(format, 5, StdOperandCounts, <<>>), <<4, 0, 0>>}

(***************************************************************************)
(* Files that lack sections (DwUnit.LineNumberInfo, DwData.DebugStr,       *)
(* readLocList, readRangeList)                                             *)
(***************************************************************************)

\* How DwData.readLineNumberInfo goes on after u.DIETree() returned tree
\* and err: an error; a nil pointer dereference at uDie.Attributes, which
\* stops the program, when the unit has no DIE; an error when the unit DIE
\* has no DW_AT_stmt_list or when the file has no .debug_line; and the
\* decoding of the line number program otherwise.
readLineNumberInfo(tree, err) ==
    IF err THEN "error"
    ELSE IF tree = NIL THEN "crash"
    ELSE IF DW_AT_stmt_list \notin DOMAIN heap[tree].Attributes THEN "error"
    ELSE IF ".debug_line" \notin sectMap THEN "error"
    ELSE "decode"

LnReturn(k, lnInfo, err, crash) ==
    [op |-> "LineNumberInfo", u |-> k, die |-> NIL, err |-> err, units |-> <<>>,
     crash |-> crash, lnInfo |-> lnInfo]

\* u.lnInfo, err = ... when readLineNumberInfo has decoded lnInfo, or has
\* failed to.
LnDecoded(k, tree, lnInfo) ==
    /\ ret' = LnReturn(k, IF lnInfo.ok THEN <<lnInfo>> ELSE NoLnInfo, ~lnInfo.ok, FALSE)
    /\ compUnits' = [compUnits EXCEPT ![k].dieTree = tree,
                                      ![k].lnInfo = IF lnInfo.ok THEN <<lnInfo>> ELSE NoLnInfo]

\* u.lnInfo, err = u.Parent.readLineNumberInfo(u) once the DIE tree of unit
\* k is there.  The line number information is decoded at the offset that
\* DW_AT_stmt_list of the unit DIE holds.
LineNumberInfoEnd(k, tree, err) ==
    LET outcome == readLineNumberInfo(tree, err) IN
    IF outcome = "decode"
    THEN LnDecoded(k, tree, DecodeLnInfo(Unit(k), debugLine,
                                         LEValue(heap[tree].Attributes[DW_AT_stmt_list].raw),
                                         addressSize))
    ELSE /\ ret' = LnReturn(k, NoLnInfo, outcome = "error", outcome = "crash")
         /\ compUnits' = [compUnits EXCEPT ![k].dieTree = tree]

\* DwUnit.LineNumberInfo on unit k: the memoised information, or
\* readLineNumberInfo, which starts with u.DIETree().
LineNumberInfoCall(k) ==
    /\ Idle
    /\ k \in 1..Len(compUnits)
    /\ IF Unit(k).lnInfo # NoLnInfo
       THEN /\ ret' = LnReturn(k, Unit(k).lnInfo, FALSE, FALSE)
            /\ UNCHANGED <<compUnits, stack, readers, calls>>
       ELSE IF Unit(k).dieTree # NIL
       THEN /\ LineNumberInfoEnd(k, Unit(k).dieTree, FALSE)
            /\ UNCHANGED <<stack, readers, calls>>
       ELSE /\ calls < MaxCalls
            /\ calls' = calls + 1
            /\ readers' = <<SeekPos(info, Unit(k).dataOffset)>>
            /\ stack' = <<NewFrame(k, 1, NIL, "root")>>
            /\ ret' = LnReturn(k, NoLnInfo, FALSE, FALSE)
            /\ UNCHANGED compUnits
    /\ UNCHANGED <<elf, debugStrTblNil, info, compUnitsNil, dieMap, heap, failed>>

\* The return of readDIETree to the DIETree call of readLineNumberInfo.
LineNumberInfoReturn ==
    /\ Len(stack) = 1 /\ Top.pc = "ret"
    /\ ret.op = "LineNumberInfo"
    /\ LineNumberInfoEnd(Top.u, Top.res, Top.err)
    /\ stack' = <<>>
    /\ readers' = <<>>
    /\ failed' = (failed \/ Top.err)
    /\ UNCHANGED <<elf, debugStrTblNil, info, compUnitsNil, dieMap, heap, calls>>

\* One unit of the fourth abbreviation table: no DIE at all, or a unit DIE
\* with or without DW_AT_stmt_list and at most one child, whose attribute
\* is a string of .debug_str, a location list, a range list, or a value
\* that is held in the DIE; or a unit DIE with two children, the first with
\* a reference to the second.
SectionUnits ==
    {UnitBytes(SectionAbbrevOffset, <<0>>),
     UnitBytes(SectionAbbrevOffset, <<6, 8, 14, 5, 97, 0, 0>>),
     UnitBytes(SectionAbbrevOffset, <<1, 0, 0, 0, 0, 8, 18, 5, 97, 0, 0>>)}
    \cup {UnitBytes(SectionAbbrevOffset, root \o child \o <<0>>) :
            root  \in {<<1, 0, 0, 0, 0>>, <<6>>},
            child \in {<<>>, <<2, 0, 0, 0, 0>>, <<2, 1, 0, 0, 0>>, <<3, 0, 0, 0, 0>>,
                       <<4, 0, 0, 0, 0>>, <<5, 97, 0>>, <<7, 1, DW_OP_deref>>}}

\* A file with .debug_info, .debug_abbrev and any of the other sections;
\* a section that the file lacks has no bytes.
InitSections ==
    /\ addressSize = 8
    /\ \E S \in SUBSET OptionalSections : sectMap = {".debug_info", ".debug_abbrev"} \cup S
    /\ debugLoc = IF ".debug_loc" \in sectMap
                  THEN EncodeList(<<<<1, 1>>>>, 1, addressSize, TRUE) ELSE <<>>
    /\ debugLine = IF ".debug_line" \in sectMap
                   THEN LineTable(DwFormat32, 4, StdOperandCounts, <<DW_LNS_copy>>) ELSE <<>>
    /\ debugRanges = IF ".debug_ranges" \in sectMap
                     THEN EncodeList(<<<<1, 1>>>>, 1, addressSize, FALSE) ELSE <<>>
    /\ debugStr = IF ".debug_str" \in sectMap THEN <<97, 98, ASCII_NULL>> ELSE <<>>
    /\ debugAbbrev = DebugAbbrev
    /\ debugStrTblNil = TRUE
    /\ now = 0
    /\ file = [modTime |-> 0, data |-> <<>>]
    /\ section = [modTime |-> 0, dataNil |-> TRUE, data |-> <<>>]
    /\ info \in SectionUnits
    /\ compUnits = <<>>
    /\ compUnitsNil = TRUE
    /\ dieMap = [o \in {} |-> NIL]
    /\ heap = <<>>
    /\ stack = <<>>
    /\ readers = <<>>
    /\ ret = NoReturn
    /\ calls = 0
    /\ failed = FALSE

NextSections ==
    \/ CompUnitsCall
    \/ \E k \in 1..MaxUnits : DIETreeCall(k)
    \/ \E k \in 1..MaxUnits : LineNumberInfoCall(k)
    \/ Step
    \/ LineNumberInfoReturn
    \/ DebugStrCall

SpecSections == InitSections /\ [][NextSections]_vars

(***************************************************************************)
(* The line number information of a unit (DwUnit.LineNumberInfo)           *)
(***************************************************************************)

\* A file with all the sections, whose .debug_info is one unit: in the
\* 32-bit format with addresses of 4 bytes, or in the 64-bit or the 32-bit
\* format with addresses of 8 bytes.  The unit DIE has DW_AT_stmt_list 0
\* and one child or none; .debug_line is one of LineInputs.
InitLine ==
    /\ sectMap = AllSections
    /\ \E c \in {<<DwFormat32, 4, <<>>>>, <<DwFormat64, 8, <<5, 97, 0>>>>,
                  <<DwFormat32, 8, <<5, 97, 0>>>>} :
          /\ info = IF c[1] = DwFormat32
                    THEN UnitBytes(SectionAbbrevOffset, <<1, 0, 0, 0, 0>> \o c[3] \o <<0>>)
                    ELSE Unit64Bytes(SectionAbbrevOffset,
                                     <<1, 0, 0, 0, 0, 0, 0, 0, 0>> \o c[3] \o <<0>>)
          /\ addressSize = c[2]
          /\ debugLine \in LineInputs(c[1], c[2])
    /\ debugLoc = <<>>
    /\ debugRanges = <<>>
    /\ debugStr = <<>>
    /\ debugAbbrev = DebugAbbrev
    /\ debugStrTblNil = TRUE
    /\ now = 0
    /\ file = [modTime |-> 0, data |-> <<>>]
    /\ section = [modTime |-> 0, dataNil |-> TRUE, data |-> <<>>]
    /\ compUnits = <<>>
    /\ compUnitsNil = TRUE
    /\ dieMap = [o \in {} |-> NIL]
    /\ heap = <<>>
    /\ stack = <<>>
    /\ readers = <<>>
    /\ ret = NoReturn
    /\ calls = 0
    /\ failed = FALSE

NextLine ==
    \/ CompUnitsCall
    \/ LineNumberInfoCall(1)
    \/ HelperEnter
    \/ ReadAttr
    \/ AttrsDone
    \/ ChildLoop
    \/ ReturnToParent
    \/ LineNumberInfoReturn

SpecLine == InitLine /\ [][NextLine]_vars

(***************************************************************************)
(* The loop of DwData.CompUnits, turn by turn                              *)
(***************************************************************************)

\* The loop of CompUnits is cut off when it has appended MaxTurns units.
MaxTurns == 4

\* The header of a version 5 type unit of the 32-bit format, its type
\* signature and type offset, and the type DIE.
TypeUnitBytes(signature) ==
    <<22, 0, 0, 0, 5, 0, DW_UT_type, 8, 0, 0, 0, 0>> \o signature \o <<24, 0, 0, 0>>
        \o EmptyBody

\* Sections with a type unit before, after or without a compile unit.
TypeUnitSections ==
    LET T == {TypeUnitBytes(<<1, 2, 3, 4, 5, 6, 7, 8>>), TypeUnitBytes(U64(0))}
        C == {UnitBytes(0, EmptyBody), Unit5Bytes(EmptyBody)}
    IN  T \cup {t \o c : t \in T, c \in C} \cup {c \o t : t \in T, c \in C}

\* Sections whose unit_length is 0, points past the end of the section, or
\* is a 64-bit length of 2^64 - 12 (size 0), of 2^64 - 25 in a second unit
\* at offset 13 (size + headerOffset = 0), of 2^63 or of 2^32.
LengthSections ==
    LET Unit64Length(length) ==
            MaxU32Bytes \o length \o <<4, 0>> \o U64(0) \o <<8>> \o EmptyBody
    IN  {<<0, 0, 0, 0, 4, 0, 0, 0, 0, 0, 8>>,
         <<0, 0, 0, 0, 4, 0, 0, 0, 0, 0, 8>> \o EmptyBody \o UnitBytes(0, EmptyBody),
         <<200, 0, 0, 0, 4, 0, 0, 0, 0, 0, 8>> \o EmptyBody,
         Unit64Length(<<244, 255, 255, 255, 255, 255, 255, 255>>),
         UnitBytes(0, EmptyBody)
            \o Unit64Length(<<231, 255, 255, 255, 255, 255, 255, 255>>),
         Unit64Length(<<0, 0, 0, 0, 0, 0, 0, 128>>),
         Unit64Length(<<0, 0, 0, 0, 1, 0, 0, 0>>)}

\* Sections that end inside a unit header, the first or the second.
TruncatedSections ==
    UNION {{SubSeq(x, 1, n) : n \in {m \in {1, 4, 6, 10, 14, 17, 20, 22} : m < Len(x)}} :
              x \in {UnitBytes(0, EmptyBody), Unit64Bytes(0, EmptyBody),
                     UnitBytes(0, EmptyBody) \o UnitBytes(0, EmptyBody)}}

\* CompUnits up to its loop: the memoised units, or d.compUnits =
\* make([]*DwUnit, 0) and a reader at the start of .debug_info.
CompUnitsEnter ==
    /\ Idle
    /\ IF ~compUnitsNil
       THEN /\ ret' = [op |-> "CompUnits", u |-> 0, die |-> NIL, err |-> FALSE,
                       units |-> [k \in 1..Len(compUnits) |-> k]]
            /\ UNCHANGED <<compUnits, compUnitsNil, stack, readers>>
       ELSE /\ compUnits' = <<>>
            /\ compUnitsNil' = FALSE
            /\ readers' = <<0>>
            /\ stack' = <<[NewFrame(0, 1, NIL, "units") EXCEPT !.pc = "loop"]>>
            /\ UNCHANGED ret
    /\ UNCHANGED <<elf, debugStrTblNil, info, dieMap, heap, calls, failed>>

\* One turn of the loop of CompUnits, and the return when the loop ends.
CompUnitsStep ==
    /\ ~Idle /\ Top.pc = "loop"
    /\ LET turn == CompUnitsTurn(info, readers[1], compUnits) IN
       IF turn.done
       THEN /\ ret' = [op |-> "CompUnits", u |-> 0, die |-> NIL, err |-> turn.err,
                       units |-> IF turn.err THEN <<>>
                                 ELSE [k \in 1..Len(compUnits) |-> k]]
            /\ stack' = <<>>
            /\ readers' = <<>>
            /\ UNCHANGED compUnits
       ELSE /\ Len(compUnits) < MaxTurns
            /\ compUnits' = turn.units
            /\ readers' = <<turn.pos>>
            /\ UNCHANGED <<stack, ret>>
    /\ UNCHANGED <<elf, debugStrTblNil, info, compUnitsNil, dieMap, heap, calls, failed>>

InitUnits ==
    /\ addressSize = 8
    /\ debugLoc = <<>>
    /\ debugLine = <<>>
    /\ debugRanges = <<>>
    /\ debugAbbrev = DebugAbbrev
    /\ info \in Chains \cup TypeUnitSections \cup LengthSections \cup TruncatedSections
    /\ NotDecoding

NextUnits == CompUnitsEnter \/ CompUnitsStep

SpecUnits == InitUnits /\ [][NextUnits]_vars

(***************************************************************************)
(* The DIE graph                                                           *)
(***************************************************************************)

Nodes == 1..Len(heap)

\* The reference attributes of node n, as the values readAttrRef returned.
RefValues(n) ==
    {heap[n].Attributes[a] : a \in {b \in DOMAIN heap[n].Attributes :
                                        heap[n].Attributes[b].ref}}

ChildSet(n) == {heap[n].Children[i] : i \in 1..Len(heap[n].Children)}

RefSucc(n) == ChildSet(n) \cup ({v.die : v \in RefValues(n)} \ {NIL})

RECURSIVE ChildClosure(_)
ChildClosure(S) ==
    LET T == S \cup UNION {ChildSet(n) : n \in S} IN
    IF T = S THEN S ELSE ChildClosure(T)

RECURSIVE RefClosure(_)
RefClosure(S) ==
    LET T == S \cup UNION {RefSucc(n) : n \in S} IN
    IF T = S THEN S ELSE RefClosure(T)

Roots == {compUnits[k].dieTree : k \in 1..Len(compUnits)} \ {NIL}

\* The nodes of the tree under root r, and the nodes a caller can reach
\* from the roots through Children and reference attributes.
TreeNodes(r) == IF r = NIL THEN {} ELSE ChildClosure({r})
Reachable == RefClosure(Roots)

\* A DIETree call has just returned, and no DIETree call has failed.
AfterSuccess == Idle /\ ret.op = "DIETree" /\ ~failed

\* One well-formed unit: every reference names the start of a DIE of the
\* unit, and no abbreviation code is also the first byte of the section.
WellFormed ==
    info \in {UnitBytes(0, NestedBody(a, b, c, z)) :
                 a \in NestedStarts, b \in NestedStarts,
                 c \in NestedStarts, z \in NestedStarts}

\* One unit of nested DIEs under any of the three abbreviation tables.
Nested ==
    info \in {UnitBytes(t, NestedBody(a, b, c, z)) :
                 t \in AbbrevOffsets, a \in NestedStarts, b \in NestedStarts,
                 c \in NestedStarts, z \in NestedStarts}

\* The bytes a DIE occupies, from the section alone: the width of a value
\* of each form of the modelled tables, the end of the abbreviation code
\* and the attribute values of the DIE at offset o, and the end of the DIE
\* with its descendants and the null entry that closes them.
FormWidth(form) ==
    CASE form = DW_FORM_addr -> 8
      [] form = DW_FORM_data2 -> 2
      [] OTHER -> 1

RECURSIVE SumWidths(_, _)
SumWidths(afs, i) ==
    IF i > Len(afs) THEN 0 ELSE FormWidth(afs[i].Form) + SumWidths(afs, i + 1)

AttrsEnd(table, o) == o + 1 + SumWidths(table[info[o + 1]].AttrForms, 1)

RECURSIVE DieEnd(_, _)
RECURSIVE ChildrenEnd(_, _)
DieEnd(table, o) ==
    IF table[info[o + 1]].HasChildren
    THEN ChildrenEnd(table, AttrsEnd(table, o))
    ELSE AttrsEnd(table, o)

ChildrenEnd(table, p) ==
    IF info[p + 1] = 0 THEN p + 1 ELSE ChildrenEnd(table, DieEnd(table, p))

\* The DIEs of the returned tree that stand at the start of a DIE of the
\* nested unit.
NestedDIEs == {n \in TreeNodes(ret.die) : heap[n].startOffset \in NestedStarts}

(***************************************************************************)
(* The claims                                                              *)
(***************************************************************************)

\* C1: after successful DIETree calls (here: on a well-formed unit), every
\* reference attribute with target offset o holds the node the cache has at
\* o, that node is in the tree of its unit's root, and no two distinct
\* reachable nodes have the same start offset.
C1_NodeIdentity ==
    (AfterSuccess /\ WellFormed) =>
        /\ \A n \in Reachable : \A v \in RefValues(n) :
              /\ v.target \in DOMAIN dieMap
              /\ v.die = dieMap[v.target]
              /\ v.die \in TreeNodes(compUnits[heap[v.die].Unit].dieTree)
        /\ \A n, m \in Reachable :
              heap[n].startOffset = heap[m].startOffset => n = m

\* The tree a successful DIETree call has just returned.
Returned == Idle /\ ret.op = "DIETree" /\ ~ret.err /\ ret.die # NIL

\* C2: after a successful DIETree, for all DIEs c, p of the tree c.Parent = p
\* exactly when c is among p.Children, and only the root has a nil Parent.
C2_ParentChild ==
    (Returned /\ WellFormed) =>
        LET T == TreeNodes(ret.die) IN
        /\ \A c \in T : \A p \in T : (heap[c].Parent = p) <=> (c \in ChildSet(p))
        /\ \A c \in T : (heap[c].Parent = NIL) <=> (c = ret.die)

\* C3: for every DIE of a successfully decoded tree, endOffset - startOffset
\* is the number of bytes the DIE occupies: code, attribute values,
\* descendants and closing null entry.
C3_Extent ==
    (Returned /\ Nested) =>
        \A n \in NestedDIEs :
            heap[n].endOffset - heap[n].startOffset =
                DieEnd(Unit(ret.u).abbrevTable.table, heap[n].startOffset)
                    - heap[n].startOffset

\* C9: the children of every decoded DIE are in byte order without gaps or
\* repeats: the first starts right after the parent's last attribute, each
\* next one at the end of the one before, at strictly increasing offsets.
C9_ChildrenInByteOrder ==
    (Returned /\ Nested) =>
        \A n \in NestedDIEs :
            LET cs == heap[n].Children IN
            /\ Len(cs) > 0 =>
                  heap[cs[1]].startOffset =
                      AttrsEnd(Unit(ret.u).abbrevTable.table, heap[n].startOffset)
            /\ \A i \in 1..(Len(cs) - 1) :
                  /\ heap[cs[i + 1]].startOffset = heap[cs[i]].endOffset
                  /\ heap[cs[i]].startOffset < heap[cs[i + 1]].startOffset

\* C4: a DIETree call on a finite unit returns, also when the reference
\* attributes of the unit form cycles.
C4_DIETreeTerminates == ~Idle ~> Idle

\* The frames that are building a DIE, and the DIEs whose endOffset has
\* been set.
Building == {stack[i].die : i \in {j \in 1..Len(stack) : stack[j].pc \in {"attr", "child"}}}
Complete(n) == heap[n].endOffset # 0

\* C5: when the decoding of the DIE at offset o returns an error the cache
\* has no entry for o; after a failed DIETree every cached DIE is complete;
\* and at any time a cached DIE is complete or being built by an active
\* call, so that a later decode of o does not find the node of a failed
\* decode and builds a new one.
C5_FailedDIERemoved ==
    /\ \A i \in 1..Len(stack) :
          (stack[i].pc = "ret" /\ stack[i].err) => stack[i].offset \notin DOMAIN dieMap
    /\ (Idle /\ ret.op = "DIETree" /\ ret.err) =>
          \A o \in DOMAIN dieMap : Complete(dieMap[o])
    /\ \A o \in DOMAIN dieMap : Complete(dieMap[o]) \/ dieMap[o] \in Building

\* A DIETree has failed, and the offset of a DIE whose decoding failed (it
\* is incomplete and no call is building it) is in the cache again with a
\* new node.
C5_Witness ==
    /\ failed
    /\ \E n \in Nodes : \E o \in DOMAIN dieMap :
          /\ heap[n].startOffset = o /\ ~Complete(n) /\ n \notin Building
          /\ dieMap[o] > n

\* C6: a successful DIETree returns no tree in which a reference attribute
\* stands for a target whose decoding failed.
C6_RefErrorPropagates ==
    Returned => \A n \in TreeNodes(ret.die) : \A v \in RefValues(n) : ~v.err

\* The parts of memoisation, as conditions on a step: a DIETree call on a
\* unit whose tree is set; a set tree; a CompUnits call on set units.
MemoisedDIETree ==
    (Idle /\ ret'.op = "DIETree" /\ ret'.u \in 1..Len(compUnits)
          /\ Unit(ret'.u).dieTree # NIL)
    => (/\ stack' = <<>>
        /\ ret'.die = Unit(ret'.u).dieTree
        /\ ~ret'.err
        /\ UNCHANGED <<dieMap, heap, compUnits>>)

TreeKept ==
    \A k \in 1..Len(compUnits) :
        (Unit(k).dieTree # NIL)
        => (k \in 1..Len(compUnits') /\ compUnits'[k].dieTree = Unit(k).dieTree)

MemoisedCompUnits ==
    (Idle /\ ret'.op = "CompUnits" /\ ~compUnitsNil /\ Len(compUnits) > 0)
    => (/\ ret'.units = [k \in 1..Len(compUnits) |-> k]
        /\ ~ret'.err
        /\ UNCHANGED <<dieMap, heap, compUnits>>)

\* C7: a DIETree call on a unit whose tree is set returns at once that very
\* root and changes neither the cache nor any node, and a set tree is never
\* replaced; a CompUnits call on a container whose units are set returns
\* those units, in their order, and leaves them as they are.
C7_Memoised == [][MemoisedDIETree /\ TreeKept /\ MemoisedCompUnits]_vars

\* The tree of unit 1 was built first, the tree of unit 2 after it, and then
\* DIETree was called on unit 1 again.
C7_Witness ==
    /\ Idle /\ ret.op = "DIETree" /\ ret.u = 1 /\ ~ret.err
    /\ Len(compUnits) = 2
    /\ Unit(1).dieTree = 1 /\ ret.die = 1
    /\ Unit(2).dieTree > 1

\* The header of unit k as the bytes of the section give it: the format,
\* the unit_length, the version and the length of the header.
Word(o, n) == SubSeq(info, o + 1, o + n)
Is64(k) == Word(Unit(k).headerOffset, 4) = MaxU32Bytes
InitialLengthWidth(k) == IF Is64(k) THEN 12 ELSE 4
UnitLength(k) ==
    IF Is64(k) THEN LEValue(Word(Unit(k).headerOffset + 4, 8))
    ELSE LEValue(Word(Unit(k).headerOffset, 4))
HeaderVersion(k) == LEValue(Word(Unit(k).headerOffset + InitialLengthWidth(k), 2))
HeaderLength(k) ==
    InitialLengthWidth(k) + 2 + (IF HeaderVersion(k) >= 5 THEN 1 ELSE 0)
        + (IF Is64(k) THEN 8 ELSE 4) + 1

\* C8: on a section of compile-unit headers CompUnits returns the units in
\* section order: the first at offset 0, each next one at the offset of the
\* one before plus its size, the size being unit_length + 4 in the 32-bit
\* format and unit_length + 12 in the 64-bit format, the format 64-bit
\* exactly when the first word is 0xffffffff, dataOffset the offset after
\* address_size; the last unit ends the section.
C8_UnitChain ==
    (Idle /\ ret.op = "CompUnits" /\ ~ret.err /\ info \in Chains) =>
        /\ ret.units = [k \in 1..Len(compUnits) |-> k]
        /\ Len(compUnits) >= 1
        /\ Unit(1).headerOffset = 0
        /\ \A k \in 1..Len(compUnits) :
              /\ (Unit(k).Format = DwFormat64) <=> Is64(k)
              /\ Unit(k).Format \in {DwFormat32, DwFormat64}
              /\ LEValue(Unit(k).size) = UnitLength(k) + InitialLengthWidth(k)
              /\ Unit(k).dataOffset = Unit(k).headerOffset + HeaderLength(k)
              /\ IF k < Len(compUnits)
                 THEN Unit(k + 1).headerOffset =
                          Unit(k).headerOffset + LEValue(Unit(k).size)
                 ELSE Unit(k).headerOffset + LEValue(Unit(k).size) = Len(info)

\* CompUnits has returned three units, of which the first is in the 64-bit
\* and the second in the 32-bit format.
C8_Witness ==
    /\ Idle /\ ret.op = "CompUnits" /\ ~ret.err /\ info \in Chains
    /\ Len(ret.units) = 3
    /\ Unit(1).Format = DwFormat64 /\ Unit(2).Format = DwFormat32
    /\ Unit(3).headerOffset > Unit(2).headerOffset

\* The sentinel rules on the words of a pair as the section holds them, and
\* the kinds of the entries of the list at pos up to the first (0, 0) pair.
AllBytes(w, b) == \A i \in 1..Len(w) : w[i] = b

PairKind(begin, end, isLoc) ==
    IF AllBytes(begin, 0) /\ AllBytes(end, 0) THEN "EndOfList"
    ELSE IF AllBytes(begin, 255) THEN "BaseAddrSelection"
    ELSE IF isLoc /\ AllBytes(begin, 0) /\ AllBytes(end, 255) THEN "Default"
    ELSE "Normal"

RECURSIVE ListKinds(_, _, _, _)
ListKinds(data, pos, size, isLoc) ==
    LET begin == SubSeq(data, pos + 1, pos + size)
        end   == SubSeq(data, pos + size + 1, pos + 2 * size)
        kind  == PairKind(begin, end, isLoc)
        after == pos + 2 * size
        next  == IF ~isLoc \/ kind = "BaseAddrSelection" THEN after
                 ELSE IF kind = "Default" THEN after + 1 + data[after + 1]
                 ELSE after + 2 + data[after + 1]
    IN  IF kind = "EndOfList" THEN <<kind>>
        ELSE <<kind>> \o ListKinds(data, next, size, isLoc)

Kinds(list) == [i \in 1..Len(list) |-> list[i].kind]

\* C10: for 4-byte and 8-byte addresses the location list and the range
\* list that are returned hold, in file order, the entries that the
\* sentinel rules give up to the first pair of two zero words, which is the
\* one end-of-list entry and the last entry.
C10_ListSentinels ==
    /\ (ret.op = "readLocList" /\ ~ret.err) =>
          Kinds(ret.list) = ListKinds(debugLoc, 0, addressSize, TRUE)
    /\ (ret.op = "readRangeList" /\ ~ret.err) =>
          Kinds(ret.list) = ListKinds(debugRanges, 0, addressSize, FALSE)

\* The end that the second word of a 4-byte pair stands for: the word
\* widened to 64 bits, the largest word becoming the largest uint64.
End32(w) == IF w = MaxU32Bytes THEN MaxU64Bytes ELSE Widen32(w)

\* The bytes of the section that entry e of a returned list was read from.
EntryLen(e, size, isLoc) ==
    IF e.kind = "Normal" /\ isLoc THEN 2 * size + 2 + Len(e.expr)
    ELSE IF e.kind = "Default" THEN 2 * size + 1 + Len(e.expr)
    ELSE 2 * size

\* Every entry of list from i on, the entry i being read at pos, carries the
\* second word of its pair as its end (a normal entry) or as its address (a
\* base address selection).
RECURSIVE EndsFromSecondWord(_, _, _, _, _)
EndsFromSecondWord(list, i, data, pos, isLoc) ==
    IF i > Len(list) THEN TRUE
    ELSE LET e     == list[i]
             end32 == SubSeq(data, pos + 5, pos + 8)
         IN  /\ e.kind = "Normal" => e.end = End32(end32)
             /\ e.kind = "BaseAddrSelection" => e.addr = End32(end32)
             /\ EndsFromSecondWord(list, i + 1, data, pos + EntryLen(e, 4, isLoc), isLoc)

\* C11: with 4-byte addresses the end of every normal entry and the address
\* of every base address selection entry of a returned location list or
\* range list is the second 32-bit word of its pair widened to 64 bits, the
\* word 0xffffffff becoming the largest uint64; the first word has no part
\* in it.
C11_EndFromEnd32 ==
    /\ (addressSize = 4 /\ ret.op = "readLocList" /\ ~ret.err) =>
          EndsFromSecondWord(ret.list, 1, debugLoc, 0, TRUE)
    /\ (addressSize = 4 /\ ret.op = "readRangeList" /\ ~ret.err) =>
          EndsFromSecondWord(ret.list, 1, debugRanges, 0, FALSE)

\* The entry that AbbrevTable is to return for a declaration.
DeclEntry(d) ==
    [AbbrevCode  |-> d.code,
     Tag         |-> d.tag,
     HasChildren |-> d.children = 1,
     AttrForms   |-> [i \in 1..Len(d.attrs) |->
                        [Name |-> d.attrs[i][1], Form |-> d.attrs[i][2]]]]

\* The bytes of data from offset on start with the encoding of shape.
EncodedAt(shape, data, offset) ==
    LET enc == AbbrevEncodings[shape] IN
    /\ offset + Len(enc) <= Len(data)
    /\ SubSeq(data, offset + 1, offset + Len(enc)) = enc

Entries(table) == {table[c] : c \in DOMAIN table}

\* C12: AbbrevTable(offset) returns the entries that are encoded from offset
\* up to the first zero code and no other, each under its code, with its
\* tag, with HasChildren true exactly for a has-children byte of 1, and
\* with its (name, form) pairs in order up to the (0, 0) pair.
C12_AbbrevTableEntries ==
    ret.op = "AbbrevTable" =>
        \A shape \in AbbrevShapes :
            EncodedAt(shape, debugAbbrev, ret.offset) =>
                /\ ~ret.err
                /\ Entries(ret.table) = {DeclEntry(shape[i]) : i \in 1..Len(shape)}
                /\ \A c \in DOMAIN ret.table : ret.table[c].AbbrevCode = c

\* Some non-zero code is declared twice in shape.
DuplicateCode(shape) ==
    \E i, j \in 1..Len(shape) : i # j /\ shape[i].code = shape[j].code

\* C13: when one table declares the same non-zero abbreviation code twice,
\* AbbrevTable returns an error and no table.
C13_DuplicateCodeIsError ==
    ret.op = "AbbrevTable" =>
        \A shape \in AbbrevShapes :
            (EncodedAt(shape, debugAbbrev, ret.offset) /\ DuplicateCode(shape)) => ret.err

\* C14: a call of readDwExpr with the declared size l that returns an
\* expression has consumed l bytes of the reader, no more and no fewer; when
\* the operands of the last operation reach past the l bytes the call
\* returns an error.
C14_ExprWithinSize ==
    (ret.op = "readDwExpr" /\ ~ret.err) => ret.consumed = ret.l

\* Arithmetic on the 8 little-endian bytes of a uint64, modulo 2^64.
RECURSIVE TimesFrom(_, _, _, _)
TimesFrom(a, m, carry, i) ==
    IF i > 8 THEN <<>>
    ELSE <<(a[i] * m + carry) % 256>> \o TimesFrom(a, m, (a[i] * m + carry) \div 256, i + 1)

RECURSIVE PlusFrom(_, _, _, _)
PlusFrom(a, b, carry, i) ==
    IF i > 8 THEN <<>>
    ELSE <<(a[i] + b[i] + carry) % 256>>
         \o PlusFrom(a, b, (a[i] + b[i] + carry) \div 256, i + 1)

\* (a << 7) mod 2^64 and (a + b) mod 2^64.
Times128(a) == TimesFrom(a, 128, 0, 1)
Plus(a, b) == PlusFrom(a, b, 0, 1)

\* The number of bytes of the LEB128 number at the start of data: the index
\* of the first byte without the bit 0x80, or 0 when there is none.
RECURSIVE LebLength(_, _)
LebLength(data, i) ==
    IF i > Len(data) THEN 0
    ELSE IF data[i] < 128 THEN i
    ELSE LebLength(data, i + 1)

\* The sum, modulo 2^64, of (data[j] & 0x7f) << 7 * (j - i) for j in i..n,
\* as (data[i] & 0x7f) + 128 * (the sum from i + 1 on).
RECURSIVE LebSum(_, _, _)
LebSum(data, i, n) ==
    IF i > n THEN ZeroU64
    ELSE Plus(U64(data[i] % 128), Times128(LebSum(data, i + 1, n)))

\* C15: ReadUnsigned consumes the bytes up to and including the first byte
\* without the bit 0x80 and returns the sum over these bytes of
\* (byte & 0x7f) << 7i modulo 2^64; when the data ends before such a byte it
\* returns an error and the value 0.
C15_ReadUnsigned ==
    ret.op = "ReadUnsigned" =>
        LET n == LebLength(debugAbbrev, 1) IN
        IF n = 0 THEN ret.err /\ ret.res = ZeroU64
        ELSE /\ ~ret.err
             /\ ret.consumed = n
             /\ ret.res = LebSum(debugAbbrev, 1, n)

\* A number of 11 bytes or more was read whose value is not zero.
C15_Witness ==
    /\ ret.op = "ReadUnsigned" /\ ~ret.err
    /\ ret.consumed >= 11
    /\ ret.res # ZeroU64

\* 2^(7n) modulo 2^64 and the two's complement of a.
RECURSIVE Pow128(_)
Pow128(n) == IF n = 0 THEN U64(1) ELSE Times128(Pow128(n - 1))

Negated(a) == Plus([i \in 1..8 |-> 255 - a[i]], U64(1))

\* The value of the signed LEB128 number in the first n bytes of data, as a
\* two's-complement 64-bit value: the sum minus 2^(7n) when bit 6 of byte n
\* is set and 7n < 64, and the sum otherwise.
LebSignedValue(data, n) ==
    LET sign == (data[n] \div 64) % 2 = 1 /\ 7 * n < 64
        sum  == LebSum(data, 1, n)
    IN  IF sign THEN Plus(sum, Negated(Pow128(n))) ELSE sum

\* C16: ReadSigned consumes the bytes ReadUnsigned consumes and returns, as
\* a two's-complement 64-bit value, the bits ReadUnsigned accumulates with
\* every bit from position 7n on set to one when bit 6 of the last of the n
\* bytes is set and 7n < 64, and with no bit added otherwise.
C16_ReadSigned ==
    ret.op = "ReadSigned" =>
        LET n == LebLength(debugAbbrev, 1) IN
        IF n = 0 THEN ret.err
        ELSE /\ ~ret.err
             /\ ret.consumed = n
             /\ ret.res = LebSignedValue(debugAbbrev, n)

\* A negative number of two bytes or more was read.
C16_Witness ==
    /\ ret.op = "ReadSigned" /\ ~ret.err
    /\ ret.consumed >= 2
    /\ U64Negative(ret.res)
    /\ (debugAbbrev[ret.consumed] \div 64) % 2 = 1

\* The 64-bit value of a little-endian integer: of its bytes followed by
\* zero bytes, or by copies of its sign when it is signed.
Widened(bytes, signed) ==
    [i \in 1..8 |-> IF i <= Len(bytes) THEN bytes[i]
                    ELSE IF signed /\ bytes[Len(bytes)] >= 128 THEN 255
                    ELSE 0]

FormSize(f) ==
    CASE f = DW_FORM_data1 -> 1
      [] f = DW_FORM_data2 -> 2
      [] f = DW_FORM_data4 -> 4
      [] f = DW_FORM_data8 -> 8

\* The constant that the bytes of data encode in the form f, read as a
\* signed or as an unsigned number.
EncodedConstant(data, f, signed) ==
    IF f = DW_FORM_udata THEN LebSum(data, 1, LebLength(data, 1))
    ELSE IF f = DW_FORM_sdata THEN LebSignedValue(data, LebLength(data, 1))
    ELSE Widened(SubSeq(data, 1, FormSize(f)), signed)

SignedReader == ret.op \in {"readAttrInt16", "readAttrInt32"}

\* C17: a value that readAttrUint16, readAttrUint32, readAttrInt16 or
\* readAttrInt32 returns without an error is the number that the bytes
\* encode; a number that does not fit the width of the reader, a udata or
\* sdata number included, is not returned cut to that width.
C17_NoSilentTruncation ==
    (/\ ret.op \in {"readAttrUint16", "readAttrUint32", "readAttrInt16", "readAttrInt32"}
     /\ ~ret.err)
        => Widened(ret.res, SignedReader) = EncodedConstant(info, ret.f, SignedReader)

\* C18: a call of Section.Data or of Section.NewReader that is made after
\* the file was written since the container was loaded returns an error,
\* whether or not the bytes of the section were cached by an earlier call
\* and however soon after the load the file was written.
C18_ModifiedFileNotRead ==
    (ret.op \in {"Section.Data", "Section.NewReader"} /\ ret.stale) => ret.err

\* The positions of the NULs of data at or after the offset o.
NulsFrom(data, o) == {k \in (o + 1)..Len(data) : data[k] = ASCII_NULL}

FirstNul(data, o) == CHOOSE k \in NulsFrom(data, o) : \A j \in NulsFrom(data, o) : k <= j

\* What ReadStr(o) is to return on the table whose bytes are data.
ReadStrResult(r, data) ==
    IF r.offset = HUGE \/ r.offset >= Len(data) THEN r.err
    ELSE IF NulsFrom(data, r.offset) = {} THEN r.err
    ELSE /\ ~r.err
         /\ r.str = SubSeq(data, r.offset + 1, FirstNul(data, r.offset) - 1)

\* C20: ReadStr(o) returns an error when o is at or past the end of
\* .debug_str and when no NUL follows o; otherwise it returns the bytes
\* from o up to the first NUL at or after o, which is left out, wherever o
\* points; and it leaves the table as it was, so that the same offset reads
\* as the same string again.
C20_ReadStr ==
    [][ret'.op = "ReadStr" => (debugStr' = debugStr /\ ReadStrResult(ret', debugStr'))]_vars

\* A string was read from an offset inside a stored string.
C20_Witness ==
    /\ ret.op = "ReadStr" /\ ~ret.err
    /\ ret.offset > 0 /\ debugStr[ret.offset] # ASCII_NULL
    /\ ret.str # <<>>

\* The unit of a file with one unit of the fourth abbreviation table: the
\* code of its unit DIE, the code of the child (0 without a child), and the
\* sections that the attributes of its DIEs point into.
RootCode == info[12]
ChildCode == IF RootCode = 0 THEN 0 ELSE IF RootCode = 1 THEN info[17] ELSE info[13]

NeededSections ==
    IF ChildCode = 2 THEN {".debug_str"}
    ELSE IF ChildCode = 3 THEN {".debug_loc"}
    ELSE IF ChildCode = 4 THEN {".debug_ranges"}
    ELSE {}

C21_CachedDIEInItsUnit ==
    \A o \in DOMAIN dieMap :
        LET u == Unit(heap[dieMap[o]].Unit) IN
        /\ u.headerOffset <= o
        /\ o < u.headerOffset + LEValue(u.size)

\* C22: a step changes the Parent of a DIE only when it is the entry of the
\* tree walk into a child position; the resolution of a reference whose
\* target is in the cache leaves the Parent of the target as it was.
C22_RefKeepsParent ==
    [][\A n \in Nodes :
          heap'[n].Parent # heap[n].Parent
          => (~Idle /\ Top.pc = "enter" /\ Top.kind = "child")]_vars

\* C28: when the tree walk finds the DIE at the child position in the
\* cache, that DIE is complete and the reader moves to its end, which is
\* after the child position; this also on a well-formed unit in which a
\* reference leads from a child to its parent.
C28_ReusedDIEComplete ==
    [][(~Idle /\ Top.pc = "enter" /\ Top.kind = "child"
          /\ readers[Top.rd] \in DOMAIN dieMap /\ WellFormed)
       => (/\ Complete(dieMap[readers[Top.rd]])
           /\ readers'[Top.rd] = heap[dieMap[readers[Top.rd]]].endOffset
           /\ readers'[Top.rd] > readers[Top.rd])]_vars

\* The DIEs that node n is linked to: the values of its reference
\* attributes, its children and its parent.
Links(n) == (RefSucc(n) \cup {heap[n].Parent}) \ {NIL}

Cached(n) ==
    heap[n].startOffset \in DOMAIN dieMap /\ dieMap[heap[n].startOffset] = n

\* C30: once a DIETree call has returned, no DIE in the cache is linked by a
\* reference attribute, as a child or as the parent to a DIE that was
\* removed from the cache.
C30_NoLinkToRemovedDIE ==
    Idle => \A n \in Nodes : Cached(n) => \A m \in Links(n) : Cached(m)

\* C26: a DIETree on a unit whose variable has a DW_AT_type of form ref_addr
\* succeeds, and the value of the attribute is the DIE that starts at the
\* offset the four bytes of the attribute give, counted from the start of
\* .debug_info.
C26_RefAddrResolves ==
    (Idle /\ ret.op = "DIETree" /\ info \in RefAddrUnits /\ ret.u = Len(compUnits)) =>
        /\ ~ret.err
        /\ ret.die # NIL
        /\ \E n \in TreeNodes(ret.die) :
              /\ DW_AT_type \in DOMAIN heap[n].Attributes
              /\ LET v == heap[n].Attributes[DW_AT_type] IN
                 /\ v.die # NIL
                 /\ heap[v.die].startOffset = LEValue(Word(heap[n].startOffset + 1, 4))

\* The offsets of the headers of the units of a section of 32-bit units
\* from offset o on that are no type units, each unit taken to end
\* unit_length + 4 bytes after its start.
RECURSIVE CompileUnitStarts(_)
CompileUnitStarts(o) ==
    IF o + 12 > Len(info) THEN <<>>
    ELSE (IF LEValue(Word(o + 4, 2)) >= 5 /\ info[o + 7] = DW_UT_type THEN <<>> ELSE <<o>>)
         \o CompileUnitStarts(o + 4 + LEValue(Word(o, 4)))

\* C23: on a section with a type unit CompUnits succeeds and returns the
\* units that are no type units, each at the offset where it starts: the
\* type unit yields no unit and the enumeration goes on at its end.
C23_TypeUnitSkipped ==
    (Idle /\ ret.op = "CompUnits" /\ info \in TypeUnitSections) =>
        /\ ~ret.err
        /\ ret.units = [k \in 1..Len(compUnits) |-> k]
        /\ [k \in 1..Len(compUnits) |-> Unit(k).headerOffset] = CompileUnitStarts(0)

\* C24: every turn of the loop of CompUnits ends the loop or leaves the
\* reader at a greater offset than it found it.
C24_CompUnitsAdvances ==
    [][(~Idle /\ Top.pc = "loop") => (stack' = <<>> \/ readers'[1] > readers[1])]_vars

\* C29: a CompUnits call that follows one that returned an error does not
\* return a nil error.
C29_FailureNotMemoised ==
    [][(ret.op = "CompUnits" /\ ret.err /\ ret'.op = "CompUnits") => ret'.err]_vars

\* C27: for DW_OP_implicit_pointer and DW_OP_GNU_implicit_pointer in a unit
\* of either format readDwExpr returns the operation with two operands: the
\* offset read from 4 or 8 bytes, and the number that the LEB128 bytes after
\* it stand for as a signed number, in the 8 bytes of its 64-bit two's
\* complement (all 255 for the byte 0x7f).
C27_ImplicitPointerSigned ==
    (ret.op = "readDwExpr" /\ ret.l >= 1 /\ debugLoc \in ImplicitPointers(FirstUnit.Format)) =>
        LET width == IF FirstUnit.Format = DwFormat32 THEN 4 ELSE 8 IN
        /\ ~ret.err
        /\ Len(ret.expr) = 1
        /\ ret.expr[1].Op = debugLoc[1]
        /\ ret.expr[1].Operands[1] = LEValue(SubSeq(debugLoc, 2, 1 + width))
        /\ ret.expr[1].Operands[2] = ReadSigned64(debugLoc, 1 + width).res
        /\ ret.consumed = Len(debugLoc)


\* C25: in the line number program that LineNumberInfo returns, every
\* instruction with a standard opcode b (0 < b < opcode_base) other than
\* DW_LNS_fixed_advance_pc holds as many operands as the entry for b of the
\* operand count table of the header says, also when the DWARF standard
\* does not define b.
C25_OperandCountFromTable ==
    (ret.op = "LineNumberInfo" /\ ~ret.err /\ ~ret.crash /\ ret.lnInfo # NoLnInfo) =>
        LET lnInfo == ret.lnInfo[1] IN
        \A i \in 1..Len(lnInfo.Program) :
            LET instr == lnInfo.Program[i] IN
            (instr.OpcodeType = DwLnOpcodeStd /\ instr.Opcode # DW_LNS_fixed_advance_pc) =>
                Len(instr.Operands) = lnInfo.operandCountTbl[instr.Opcode]

====
